---- MODULE Spec2Model ----
(***************************************************************************)
(* Verification model of the kops OpenStack instance reconciliation code:  *)
(*   upup/pkg/fi/cloudup/openstack/network.go     (network and instance    *)
(*                                                 facade operations)      *)
(*   upup/pkg/fi/cloudup/openstacktasks/instance.go (Instance task and the *)
(*                                                 server-group builder)   *)
(*                                                                         *)
(* The module holds several specifications over one set of variables:      *)
(*   SpecFacade  network facade operations run by RetryWithBackoff         *)
(*   Spec        RenderOpenstack of Instance tasks, createInstance included*)
(*   SpecFind    Instance.Find against a listed set of cloud servers       *)
(*   SpecPure    CheckChanges and ShouldCreate on drawn arguments          *)
(*   SpecDeps    GetDependencies and an order that respects it             *)
(*   SpecCompute the instance operations of the facade                     *)
(*   SpecRender  RenderOpenstack on drawn arguments                        *)
(*   SpecRun     one run of a task with drawn desired fields               *)
(*   SpecRetry   runs of a task repeated after failures, under fairness    *)
(*   SpecSubnet  findNetworkBySubnetID and the getNetwork it calls         *)
(*   SpecName    makeInstanceName on drawn name tuples                     *)
(*   SpecBuild   buildInstances and Build over drawn clusters              *)
(* A variable a specification does not use keeps its idle value.           *)
(***************************************************************************)
EXTENDS Integers, Sequences, FiniteSets, TLC

VARIABLES
    \* ---- facade operations (network.go) ----
    fop,          \* facade operation in progress, "none" when idle
    fpc,          \* "idle" | "retry" | "ports" | "returned"
    backoff,      \* wait.Backoff of the call: [Steps |-> n]
    i,            \* RetryWithBackoff's attempt counter
    networks,     \* networks the cloud holds
    networkName,  \* argument: name (getExternalNetwork) or id (getNetwork)
    net,          \* the result variable the closure captures
    outs,         \* what the closure returned on each attempt so far
    ret,          \* what the facade function returned: [val, err]
    remote,       \* what the cloud answered to each remote call of the call
    down,         \* how many more remote calls meet a transport failure
    hist,         \* the facade calls that have returned, in order: the
                  \* operation, its argument, its error, the networks left
    inner         \* the facade call the closure is inside: its operation,
                  \* its own attempt counter and its argument

facadeVars ==
    <<fop, fpc, backoff, i, networks, networkName, net, outs, ret, remote, down,
      hist, inner>>

VARIABLES
    \* ---- the cloud the Instance tasks run against ----
    servers,      \* compute servers: set of [ID, Name, Tags]
    ports,        \* port id -> [DeviceID, DeviceOwner]
    fips,         \* floating ip id -> id of the port it targets, "" for none
    \* ---- Instance tasks (instance.go) ----
    e,            \* task -> the desired Instance
    a,            \* task -> what Find returned: Nil or the actual Instance
    pc,           \* task -> position of the task's run
    changes,      \* task -> the changes between a and e
    should,       \* task -> what ShouldCreate returned
    members,      \* ServerGroup.Members of the group the tasks share
    calls,        \* task -> what Render has done so far, in order
    ci,           \* task -> createInstance's call: attempts, last attempt
    rerr,         \* task -> the error the run ended with, Nil for none
    faults,       \* task -> which remote calls of the last Find failed
    prev,         \* task -> what the Find before the last one returned
    cloud0,       \* the cloud as it was when Render was called
    \* ---- the ServerGroup the tasks share ----
    mutex,        \* the task inside AddNewMember, Nil when none is
    appending     \* task -> the Members that task's append has read

cloudVars == <<servers, ports, fips>>
groupVars == <<mutex, appending>>
taskVars ==
    <<e, a, changes, should, members, calls, ci, pc, rerr, faults, prev, cloud0,
      groupVars>>

VARIABLES
    \* ---- the task set and its rendering order ----
    tasks,        \* task name -> task, the map GetDependencies is given
    rendered,     \* names of the tasks that have completed rendering
    \* ---- the server-group builder (openstackmodel) ----
    naming,       \* calls of makeInstanceName: arguments, digests, results
    built         \* a run of Build: its input, its position, the tasks
                  \* given to AddTask so far, its error

depsVars == <<tasks, rendered, naming, built>>

vars == <<facadeVars, cloudVars, taskVars, depsVars>>

(***************************************************************************)
(* Bounds                                                                  *)
(***************************************************************************)
MaxSteps == 3
\* facade calls made one after the other
MaxCalls == 2

(***************************************************************************)
(* Values                                                                  *)
(***************************************************************************)
Nil == "nil"                       \* Go nil of a *string or an error
None == <<>>                       \* Go nil of a pointer to a struct or slice
Some(x) == <<x>>                   \* a pointer to x
Val(p) == p[1]                     \* *p
ErrWaitTimeout == "ErrWaitTimeout" \* wait.ErrWaitTimeout
ErrDomain == "error"               \* an fmt.Errorf error of the facade

NetworkNames == {"ext", "int"}
\* the networks a cloud may hold, in listing order
NetworkUniverse ==
    << [ID |-> "n1", Name |-> "ext", External |-> TRUE],
       [ID |-> "n2", Name |-> "ext", External |-> FALSE],
       [ID |-> "n3", Name |-> "int", External |-> TRUE] >>

SeqToSet(s) == {s[k] : k \in 1..Len(s)}

RECURSIVE SelectSeqIn(_, _)
\* the subsequence of s whose elements are in S
SelectSeqIn(s, S) ==
    IF s = <<>> THEN <<>>
    ELSE IF Head(s) \in S THEN <<Head(s)>> \o SelectSeqIn(Tail(s), S)
    ELSE SelectSeqIn(Tail(s), S)

\* the closure of the facade call in progress is inside no facade call
NoInner == [op |-> "none", i |-> 0, id |-> ""]
NestIdle == inner = NoInner

(***************************************************************************)
(* vfs.RetryWithBackoff: the closure is run once more (attempt number n);  *)
(* r = [done, err] is what it returned.  The loop ends when the closure    *)
(* reports done or when n reaches the step limit, and returns (done, err). *)
(***************************************************************************)
RetryWithBackoff(steps, n, r) ==
    IF r.done THEN [fin |-> TRUE, done |-> TRUE, err |-> r.err]
    ELSE IF n >= steps THEN [fin |-> TRUE, done |-> FALSE, err |-> r.err]
    ELSE [fin |-> FALSE, done |-> FALSE, err |-> r.err]

\* the tail every facade function shares:
\*   if err != nil {return v, err} else if done {return v, nil}
\*   else {return v, wait.ErrWaitTimeout}
FacadeReturnDropsTimeout(v, done, err) ==
    IF err # Nil THEN [val |-> v, err |-> err]
    ELSE [val |-> v, err |-> Nil]

FacadeReturn(v, done, err) ==
    IF err # Nil THEN [val |-> v, err |-> err]
    ELSE IF done THEN [val |-> v, err |-> Nil]
    ELSE [val |-> v, err |-> ErrWaitTimeout]

(***************************************************************************)
(* getExternalNetwork's closure.  pages is the listing, one network a page;*)
(* failAt = k > 0 makes the fetch or extraction of page k fail (one past   *)
(* the last page: the fetch of the next page), 0 is no failure.            *)
(* cur is the captured net.  Every page is visited (the page handler       *)
(* answers true after a match too), a later match overwrites an earlier.   *)
(***************************************************************************)
RECURSIVE EachPage(_, _, _, _, _)
EachPage(pages, k, failAt, name, cur) ==
    IF k = failAt THEN [net |-> cur, err |-> ErrDomain]
    ELSE IF k > Len(pages) THEN [net |-> cur, err |-> Nil]
    ELSE IF pages[k].External /\ pages[k].Name = name
         THEN EachPage(pages, k + 1, failAt, name, pages[k].ID)
         ELSE EachPage(pages, k + 1, failAt, name, cur)

getExternalNetworkClosureKeepsErr(pages, failAt, name, cur) ==
    LET p == EachPage(pages, 1, failAt, name, cur)
    IN  IF p.err # Nil THEN [net |-> p.net, done |-> FALSE, err |-> p.err]
        ELSE [net |-> p.net, done |-> p.net # Nil, err |-> Nil]

getExternalNetworkClosure(pages, failAt, name, cur) ==
    LET p == EachPage(pages, 1, failAt, name, cur)
    IN  IF p.err # Nil THEN [net |-> p.net, done |-> FALSE, err |-> Nil]
        ELSE [net |-> p.net, done |-> p.net # Nil, err |-> Nil]

\* getNetwork's closure: networks.Get(id) answers the network or fails
\* (transport failure, or no network with that id).
getNetworkClosure(nets, id, transportFails) ==
    IF transportFails \/ ~(\E n \in nets : n.ID = id)
    THEN [net |-> Nil, done |-> FALSE, err |-> ErrDomain]
    ELSE [net |-> id, done |-> TRUE, err |-> Nil]

\* what the cloud answers to a call on the resource id of the set held:
\* a transport or server failure, not-found, or the call's success
Answer(held, id, transportFails) ==
    IF transportFails THEN "fail"
    ELSE IF ~(\E n \in held : n.ID = id) THEN "notfound"
    ELSE "ok"

\* listNetworks' closure: the listing and its extraction succeed or fail;
\* ns is assigned on success only
listNetworksClosure(nets, listFails, cur) ==
    IF listFails THEN [net |-> cur, done |-> FALSE, err |-> ErrDomain]
    ELSE [net |-> {n.ID : n \in nets}, done |-> TRUE, err |-> Nil]

\* isNotFound(err)
isNotFound(answer) == answer = "notfound"

deleteNetworkClosureRetriesNotFound(answer) ==
    IF answer # "ok"
    THEN [net |-> Nil, done |-> FALSE, err |-> ErrDomain]
    ELSE [net |-> Nil, done |-> TRUE, err |-> Nil]

\* deleteNetwork's closure: err != nil && !isNotFound(err) is reported as
\* (false, error), anything else as (true, nil)
deleteNetworkClosure(answer) ==
    IF answer # "ok" /\ ~isNotFound(answer)
    THEN [net |-> Nil, done |-> FALSE, err |-> ErrDomain]
    ELSE [net |-> Nil, done |-> TRUE, err |-> Nil]

(***************************************************************************)
(* Instance.Find                                                           *)
(***************************************************************************)
Panic == "panic"                   \* a nil dereference ends the call

\* no task is inside AddNewMember
GroupIdle == mutex = Nil /\ appending = <<>>

\* fi.StringValue
StringValue(p) == IF p = Nil THEN "" ELSE p

\* servers.List(client, opts): the compute service answers the servers that
\* carry the tag of opts.Tags, every server when opts.Tags is left empty
ListServers(srv, opts) ==
    {s \in srv :
        /\ opts.Name = "" \/ s.Name = opts.Name
        /\ opts.Tags = "" \/ (s.Tags # None /\ opts.Tags \in Val(s.Tags))}

\* cloud.ListPorts(ports.ListOpts{DeviceID: id})
ListPorts(prt, id) == {p \in DOMAIN prt : prt[p].DeviceID = id}

\* cloud.ListL3FloatingIPs(ListOpts{PortID: id}): an empty PortID filters
\* nothing
ListL3FloatingIPs(fl, id) ==
    IF id = "" THEN DOMAIN fl ELSE {f \in DOMAIN fl : fl[f] = id}

FindOptsOnceFoundListsAll(t) ==
    [Name |-> "", Tags |-> IF Len(t.Tags) > 0 /\ t.ID = Nil THEN t.Tags[1] ELSE ""]

\* opts := servers.ListOpts{}; if len(e.Tags) > 0 {opts.Tags = e.Tags[0]}
FindOpts(t) ==
    [Name |-> "", Tags |-> IF Len(t.Tags) > 0 THEN t.Tags[1] ELSE ""]

\* fi.StringValue(e.Port.ID)
PortID(t) == StringValue(Val(t.Port).ID)

FindNoActual(t, err, made) ==
    [actual |-> None, err |-> err, ID |-> t.ID, made |-> made]

FindPicksOne(serverList) == Cardinality(serverList) >= 1

\* the list holds a server to take: more than one is refused
FindTakes(serverList) == Cardinality(serverList) = 1

\* Find(c) of the task value t against the cloud (srv, prt, fl); in says
\* which of the remote calls fail.  The result is the returned actual and
\* error, the value e.ID has afterwards, and the remote calls Find made.
Find(t, srv, prt, fl, in) ==
    IF t.Name = Nil THEN FindNoActual(t, Nil, {})
    ELSE IF in.listFails THEN FindNoActual(t, ErrDomain, {"list"})
    ELSE
    LET serverList == ListServers(srv, FindOpts(t))
    IN  IF Cardinality(serverList) = 0 THEN FindNoActual(t, Nil, {"list"})
        ELSE IF ~FindTakes(serverList) THEN FindNoActual(t, ErrDomain, {"list"})
        ELSE
        LET server == CHOOSE s \in serverList : TRUE
            found == ListPorts(prt, server.ID)
            floating == ListL3FloatingIPs(fl, PortID(t))
            wantFips == t.FloatingIP # None /\ t.Port # None
            upToPort == IF Cardinality(found) = 1
                        THEN {"list", "ports", "portTask"} ELSE {"list", "ports"}
            upToFips == IF wantFips THEN upToPort \cup {"fips"} ELSE upToPort
        IN  IF server.Tags = None THEN FindNoActual(t, Panic, {"list"})
            ELSE IF in.portsFail THEN FindNoActual(t, ErrDomain, {"list", "ports"})
            ELSE IF Cardinality(found) = 1 /\ in.portTaskFails
                 THEN FindNoActual(t, ErrDomain, upToPort)
            ELSE IF Cardinality(found) > 1 THEN FindNoActual(t, ErrDomain, upToPort)
            ELSE IF wantFips /\ in.fipsFail THEN FindNoActual(t, ErrDomain, upToFips)
            ELSE IF wantFips /\ Cardinality(floating) > 1
                 THEN FindNoActual(t, ErrDomain, upToFips)
            ELSE [actual |-> Some(
                    [ID |-> server.ID,
                     Name |-> t.Name,
                     Tags |-> Val(server.Tags),
                     Metadata |-> server.Metadata,
                     \* the immutable fields are taken from e, SSHKey after
                     \* it was first read from server.KeyName
                     Flavor |-> t.Flavor,
                     Image |-> t.Image,
                     Region |-> t.Region,
                     SSHKey |-> t.SSHKey,
                     ServerGroup |-> t.ServerGroup,
                     Port |-> IF Cardinality(found) = 1
                              THEN Some([ID |-> CHOOSE p \in found : TRUE])
                              ELSE None,
                     FloatingIP |-> IF wantFips /\ Cardinality(floating) = 1
                                    THEN Some([ID |-> CHOOSE f \in floating : TRUE])
                                    ELSE None]),
                  err |-> Nil,
                  ID |-> server.ID,
                  made |-> upToFips]

\* createInstance has not been called
NoAttempt == [create |-> "none", getPort |-> "none", DeviceID |-> "",
              DeviceOwner |-> "", updatePort |-> "none"]
NoCall == [i |-> 0, portID |-> "", last |-> NoAttempt, clearedAt |-> 0,
           ret |-> [val |-> Nil, err |-> Nil],
           bootVolume |-> FALSE, VolumeSize |-> 0]

NoFaults ==
    [listFails |-> FALSE, portsFail |-> FALSE, portTaskFails |-> FALSE,
     fipsFail |-> FALSE]

Faults == [listFails : BOOLEAN, portsFail : BOOLEAN, portTaskFails : BOOLEAN,
           fipsFail : BOOLEAN]

\* Find has been called at most once
NoPrev == <<>>

\* the task runs Find; the run goes on to plan its changes, or ends with
\* Find's error
RunFind(t) ==
    /\ pc[t] = "find"
    /\ \E in \in Faults :
          LET r == Find(e[t], servers, ports, fips, in)
          IN  \* only a call that is made can fail
              /\ in.listFails => "list" \in r.made
              /\ in.portsFail => "ports" \in r.made
              /\ in.portTaskFails => "portTask" \in r.made
              /\ in.fipsFail => "fips" \in r.made
              /\ faults' = [faults EXCEPT ![t] = in]
              /\ a' = [a EXCEPT ![t] = r.actual]
              /\ e' = [e EXCEPT ![t].ID = r.ID]
              /\ rerr' = [rerr EXCEPT ![t] = r.err]
              /\ pc' = [pc EXCEPT ![t] = IF r.err = Nil THEN "plan" ELSE "failed"]
    /\ UNCHANGED <<cloudVars, changes, should, members, calls, ci>>
    /\ UNCHANGED <<facadeVars, depsVars, groupVars, prev, cloud0>>

\* Find is called once more on the task, as the next run of the task calls
\* it, the cloud being as the first call left it; what the first call
\* returned is kept
FindAgain(t) ==
    /\ pc[t] \in {"plan", "failed"} /\ prev[t] = NoPrev
    /\ prev' = [prev EXCEPT ![t] =
                   <<[actual |-> a[t], err |-> rerr[t], faults |-> faults[t]]>>]
    /\ \E in \in Faults :
          LET r == Find(e[t], servers, ports, fips, in)
          IN  /\ in.listFails => "list" \in r.made
              /\ in.portsFail => "ports" \in r.made
              /\ in.portTaskFails => "portTask" \in r.made
              /\ in.fipsFail => "fips" \in r.made
              /\ faults' = [faults EXCEPT ![t] = in]
              /\ a' = [a EXCEPT ![t] = r.actual]
              /\ e' = [e EXCEPT ![t].ID = r.ID]
              /\ rerr' = [rerr EXCEPT ![t] = r.err]
              /\ pc' = [pc EXCEPT ![t] = IF r.err = Nil THEN "plan" ELSE "failed"]
    /\ UNCHANGED <<cloudVars, changes, should, members, calls, ci, cloud0>>
    /\ UNCHANGED <<facadeVars, depsVars, groupVars>>

(***************************************************************************)
(* CheckChanges, ShouldCreate and the engine's step between Find and       *)
(* Render                                                                  *)
(***************************************************************************)
NoChanges == [ID |-> Nil, Name |-> Nil, Port |-> None, FloatingIP |-> None,
              Metadata |-> Nil, Flavor |-> Nil, Image |-> Nil, Region |-> Nil,
              SSHKey |-> Nil, ServerGroup |-> None]
NoDecision == [create |-> FALSE, err |-> Nil]

\* fi.BuildChanges(a, e, changes): a field of changes is set when e sets it
\* and a has another value; task references compare by their IDs.  A nil
\* actual stands for an Instance with no field set.
ChangedRef(ar, er) ==
    IF er = None THEN None
    ELSE IF ar # None /\ Val(ar).ID = Val(er).ID THEN None
    ELSE er

BuildChanges(act, t) ==
    IF act = None
    THEN [ID |-> t.ID, Name |-> t.Name, Port |-> t.Port,
          FloatingIP |-> t.FloatingIP, Metadata |-> t.Metadata,
          Flavor |-> t.Flavor, Image |-> t.Image, Region |-> t.Region,
          SSHKey |-> t.SSHKey, ServerGroup |-> t.ServerGroup]
    ELSE [ID |-> IF t.ID # Val(act).ID THEN t.ID ELSE Nil,
          Name |-> IF t.Name # Val(act).Name THEN t.Name ELSE Nil,
          Port |-> ChangedRef(Val(act).Port, t.Port),
          FloatingIP |-> ChangedRef(Val(act).FloatingIP, t.FloatingIP),
          Metadata |-> IF t.Metadata # Val(act).Metadata THEN t.Metadata ELSE Nil,
          Flavor |-> IF t.Flavor # Val(act).Flavor THEN t.Flavor ELSE Nil,
          Image |-> IF t.Image # Val(act).Image THEN t.Image ELSE Nil,
          Region |-> IF t.Region # Val(act).Region THEN t.Region ELSE Nil,
          SSHKey |-> IF t.SSHKey # Val(act).SSHKey THEN t.SSHKey ELSE Nil,
          ServerGroup |-> ChangedRef(Val(act).ServerGroup, t.ServerGroup)]

CheckChangesAllowsRename(act, t, chg) ==
    IF act = None
    THEN IF t.Name = Nil THEN "RequiredField" ELSE Nil
    ELSE IF chg.ID # Nil THEN "CannotChangeField"
    ELSE Nil

\* CheckChanges(a, e, changes): the error it returns, Nil for none
CheckChanges(act, t, chg) ==
    IF act = None
    THEN IF t.Name = Nil THEN "RequiredField" ELSE Nil
    ELSE IF chg.ID # Nil THEN "CannotChangeField"
    ELSE IF chg.Name # Nil THEN "CannotChangeField"
    ELSE Nil

ShouldCreateIgnoresFloatingIP(act, t, chg) ==
    IF act = None THEN [create |-> TRUE, err |-> Nil]
    ELSE IF chg.Port # None THEN [create |-> TRUE, err |-> Nil]
    ELSE [create |-> FALSE, err |-> Nil]

\* ShouldCreate(a, e, changes): its (bool, error)
ShouldCreate(act, t, chg) ==
    IF act = None THEN [create |-> TRUE, err |-> Nil]
    ELSE IF chg.Port # None THEN [create |-> TRUE, err |-> Nil]
    ELSE IF chg.FloatingIP # None THEN [create |-> TRUE, err |-> Nil]
    ELSE [create |-> FALSE, err |-> Nil]

\* fi.DefaultDeltaRunMethod after Find: build the changes; with none the run
\* is over; CheckChanges may refuse them; ShouldCreate decides on Render
Plan(t) ==
    /\ pc[t] = "plan"
    /\ LET chg == BuildChanges(a[t], e[t])
           bad == CheckChanges(a[t], e[t], chg)
           sc == ShouldCreate(a[t], e[t], chg)
       IN  /\ changes' = [changes EXCEPT ![t] = chg]
           /\ IF chg = NoChanges
              THEN pc' = [pc EXCEPT ![t] = "done"] /\ UNCHANGED <<rerr, should>>
              ELSE IF bad # Nil
              THEN /\ pc' = [pc EXCEPT ![t] = "failed"]
                   /\ rerr' = [rerr EXCEPT ![t] = bad]
                   /\ should' = should
              ELSE /\ should' = [should EXCEPT ![t] = sc]
                   /\ rerr' = [rerr EXCEPT ![t] = sc.err]
                   /\ pc' = [pc EXCEPT ![t] =
                                IF sc.err # Nil THEN "failed"
                                ELSE IF sc.create THEN "render" ELSE "done"]
    /\ UNCHANGED <<cloudVars, e, a, members, calls, ci, faults>>
    /\ UNCHANGED <<facadeVars, depsVars, groupVars, prev, cloud0>>

(***************************************************************************)
(* createInstance (network.go) and RenderOpenstack (instance.go)           *)
(***************************************************************************)
\* the ID the cloud gives the server task t creates, and the ID it gives a
\* further server created for the same task: every server has its own
NewServerID == [i1 |-> "c1", i2 |-> "c2"]
AgainServerID == [i1 |-> "c1b", i2 |-> "c2b"]
FreshServerID(t) ==
    IF \E s \in servers : s.ID = NewServerID[t]
    THEN AgainServerID[t] ELSE NewServerID[t]

\* IsPortInUse(err): the error is a gophercloud.ErrDefault409
IsPortInUse(res) == res = "409"

StalePortIgnoresOwner(port) == port.DeviceID # ""

\* port.DeviceID != "" && port.DeviceOwner == ""
StalePort(port) == port.DeviceID # "" /\ port.DeviceOwner = ""

createInstanceClosureGivesUp(res, portID, port, getPortFails, updatePortFails) ==
    LET quiet == [create |-> res, getPort |-> "none", DeviceID |-> "",
                  DeviceOwner |-> "", updatePort |-> "none"]
        seen == [quiet EXCEPT !.getPort = "ok", !.DeviceID = port.DeviceID,
                              !.DeviceOwner = port.DeviceOwner]
    IN  IF res = "ok" THEN [done |-> TRUE, err |-> Nil, att |-> quiet]
        ELSE IF IsPortInUse(res) /\ portID # ""
        THEN IF getPortFails
             THEN [done |-> FALSE, err |-> ErrDomain,
                   att |-> [quiet EXCEPT !.getPort = "err"]]
             ELSE IF StalePort(port)
             THEN IF updatePortFails
                  THEN [done |-> FALSE, err |-> ErrDomain,
                        att |-> [seen EXCEPT !.updatePort = "err"]]
                  ELSE [done |-> TRUE, err |-> ErrDomain,
                        att |-> [seen EXCEPT !.updatePort = "ok"]]
             ELSE [done |-> FALSE, err |-> ErrDomain, att |-> seen]
        ELSE [done |-> FALSE, err |-> ErrDomain, att |-> quiet]

\* createInstance's closure, run once.  res is the answer of servers.Create
\* ("ok", "409" or "500"), port the port the cloud holds under portID.
\* The result is the closure's (done, err) and att, the calls it made:
\* GetPort with the binding it read, UpdatePort with its outcome.
createInstanceClosure(res, portID, port, getPortFails, updatePortFails) ==
    LET quiet == [create |-> res, getPort |-> "none", DeviceID |-> "",
                  DeviceOwner |-> "", updatePort |-> "none"]
        seen == [quiet EXCEPT !.getPort = "ok", !.DeviceID = port.DeviceID,
                              !.DeviceOwner = port.DeviceOwner]
    IN  IF res = "ok" THEN [done |-> TRUE, err |-> Nil, att |-> quiet]
        ELSE IF IsPortInUse(res) /\ portID # ""
        THEN IF getPortFails
             THEN [done |-> FALSE, err |-> ErrDomain,
                   att |-> [quiet EXCEPT !.getPort = "err"]]
             ELSE IF StalePort(port)
             THEN IF updatePortFails
                  THEN [done |-> FALSE, err |-> ErrDomain,
                        att |-> [seen EXCEPT !.updatePort = "err"]]
                  ELSE [done |-> FALSE, err |-> ErrDomain,
                        att |-> [seen EXCEPT !.updatePort = "ok"]]
             ELSE [done |-> FALSE, err |-> ErrDomain, att |-> seen]
        ELSE [done |-> FALSE, err |-> ErrDomain, att |-> quiet]

\* the port as the closure finds it; a call without a port reads none
PortOf(portID) ==
    IF portID \in DOMAIN ports THEN ports[portID]
    ELSE [DeviceID |-> "", DeviceOwner |-> ""]

\* the answers servers.Create can give: it succeeds only while the port it
\* is given is bound to no device
CreateAnswers(portID) ==
    {"409", "500"} \cup (IF PortOf(portID).DeviceID = "" THEN {"ok"} ELSE {})

\* the metadata keys openstack.BOOT_FROM_VOLUME and
\* openstack.BOOT_VOLUME_SIZE, named by their identifiers
BOOT_FROM_VOLUME == "BOOT_FROM_VOLUME"
BOOT_VOLUME_SIZE == "BOOT_VOLUME_SIZE"

\* strconv.ParseInt(s, 10, 64), s a sequence of characters: an optional
\* sign, then one or more decimal digits and nothing else; a value that does
\* not fit 64 bits (beyond 1<<63 - 1, or below -(1<<63)) is an error.  The
\* range is decided on the numeral; the numerals drawn that are in range
\* are small.
ParseInt(s) ==
    LET Digits == <<"0", "1", "2", "3", "4", "5", "6", "7", "8", "9">>
        IsDigit(c) == \E k \in 1..10 : Digits[k] = c
        DigitValue(c) == (CHOOSE k \in 1..10 : Digits[k] = c) - 1
        RECURSIVE StripZeros(_)
        StripZeros(d) ==
            IF Len(d) > 1 /\ d[1] = "0" THEN StripZeros(Tail(d)) ELSE d
        RECURSIVE NumeralGreater(_, _)
        NumeralGreater(x, y) ==
            IF x = <<>> THEN FALSE
            ELSE IF x[1] # y[1] THEN DigitValue(x[1]) > DigitValue(y[1])
            ELSE NumeralGreater(Tail(x), Tail(y))
        RECURSIVE NumeralValue(_)
        NumeralValue(d) ==
            IF d = <<>> THEN 0
            ELSE 10 * NumeralValue(SubSeq(d, 1, Len(d) - 1)) + DigitValue(d[Len(d)])
        neg == s # <<>> /\ s[1] = "-"
        digits == IF s # <<>> /\ s[1] \in {"+", "-"} THEN Tail(s) ELSE s
        limit == <<"9","2","2","3","3","7","2","0","3","6","8","5","4","7","7","5","8","0">>
                     \o (IF neg THEN <<"8">> ELSE <<"7">>)
        m == StripZeros(digits)
    IN  IF digits = <<>> \/ \E k \in 1..Len(digits) : ~IsDigit(digits[k])
        THEN [val |-> 0, err |-> "ErrSyntax"]
        ELSE IF Len(m) > Len(limit) \/ (Len(m) = Len(limit) /\ NumeralGreater(m, limit))
        THEN [val |-> 0, err |-> "ErrRange"]
        ELSE [val |-> IF neg THEN 0 - NumeralValue(digits) ELSE NumeralValue(digits),
              err |-> Nil]

\* the words the boot flag is compared with
True == <<"t", "r", "u", "e">>
Enabled == <<"e", "n", "a", "b", "l", "e", "d">>

\* the metadata maps an Instance can carry, by the names the tasks use for
\* them; a name not listed is a map with neither of the two keys
MetadataOf(m) ==
    CASE m = "boot" -> (BOOT_FROM_VOLUME :> True)
      [] m = "enabled20" -> (BOOT_FROM_VOLUME :> Enabled) @@ (BOOT_VOLUME_SIZE :> <<"2", "0">>)
      [] m = "boot+07" -> (BOOT_FROM_VOLUME :> True) @@ (BOOT_VOLUME_SIZE :> <<"+", "0", "7">>)
      [] m = "boot-3" -> (BOOT_FROM_VOLUME :> True) @@ (BOOT_VOLUME_SIZE :> <<"-", "3">>)
      [] m = "boot2x" -> (BOOT_FROM_VOLUME :> True) @@ (BOOT_VOLUME_SIZE :> <<"2", "x">>)
      [] m = "boot1.5" -> (BOOT_FROM_VOLUME :> True) @@ (BOOT_VOLUME_SIZE :> <<"1", ".", "5">>)
      [] m = "bootEmpty" -> (BOOT_FROM_VOLUME :> True) @@ (BOOT_VOLUME_SIZE :> <<>>)
      [] m = "bootSign" -> (BOOT_FROM_VOLUME :> Enabled) @@ (BOOT_VOLUME_SIZE :> <<"-">>)
      [] m = "bootHuge" -> (BOOT_FROM_VOLUME :> True) @@ (BOOT_VOLUME_SIZE :>
              <<"9","2","2","3","3","7","2","0","3","6","8","5","4","7","7","5","8","0","8">>)
      [] m = "size20" -> (BOOT_VOLUME_SIZE :> <<"2", "0">>)
      [] m = "false20" -> (BOOT_FROM_VOLUME :> <<"f", "a", "l", "s", "e">>)
                            @@ (BOOT_VOLUME_SIZE :> <<"2", "0">>)
      [] m = "True" -> (BOOT_FROM_VOLUME :> <<"T", "r", "u", "e">>)
      [] m = "yes2x" -> (BOOT_FROM_VOLUME :> <<"y", "e", "s">>) @@ (BOOT_VOLUME_SIZE :> <<"2", "x">>)
      [] OTHER -> <<>>

\* the names of the maps that carry one of the two keys
BootMetadata ==
    {"boot", "enabled20", "boot+07", "boot-3", "boot2x", "boot1.5", "bootEmpty",
     "bootSign", "bootHuge", "size20", "false20", "True", "yes2x"}

\* what cloud.GetImage finds for an image name
GetImage(imageName) == [ID |-> imageName, MinDiskGigabytes |-> 10]

bootFromVolumeAnyValue(m) == BOOT_FROM_VOLUME \in DOMAIN m

\* bootFromVolume: the key is present and its value is "true" or "enabled"
bootFromVolume(m) ==
    IF BOOT_FROM_VOLUME \notin DOMAIN m THEN FALSE
    ELSE m[BOOT_FROM_VOLUME] \in {True, Enabled}

\* includeBootVolumeOptions: the options are returned as they are unless the
\* instance boots from a volume; the block device takes the image's minimum
\* disk, or the value of BOOT_VOLUME_SIZE when the key is present
includeBootVolumeOptions(m, imageName, getImageFails) ==
    IF ~bootFromVolume(m)
    THEN [bootVolume |-> FALSE, VolumeSize |-> 0, err |-> Nil]
    ELSE IF getImageFails
    THEN [bootVolume |-> FALSE, VolumeSize |-> 0, err |-> ErrDomain]
    ELSE IF BOOT_VOLUME_SIZE \in DOMAIN m
    THEN LET parsed == ParseInt(m[BOOT_VOLUME_SIZE])
         IN  IF parsed.err # Nil
             THEN [bootVolume |-> FALSE, VolumeSize |-> 0, err |-> ErrDomain]
             ELSE [bootVolume |-> TRUE, VolumeSize |-> parsed.val, err |-> Nil]
    ELSE [bootVolume |-> TRUE,
          VolumeSize |-> GetImage(imageName).MinDiskGigabytes, err |-> Nil]

\* RenderOpenstack with a == nil, up to the create call: the image and the
\* flavor are looked up, the create options take the ID of e.Port, the user
\* data is read, the boot volume options are added.  Any of the four can
\* fail, and Render returns its error; "bootVolume" is the failure of the
\* GetImage call of includeBootVolumeOptions.
RenderResolve(t) ==
    /\ pc[t] = "render" /\ a[t] = None
    /\ \E failure \in {"none", "image", "flavor", "userData", "bootVolume"} :
          LET m == MetadataOf(e[t].Metadata)
              bfv == includeBootVolumeOptions(m, e[t].Image, failure = "bootVolume")
              boot == IF bootFromVolume(m) THEN <<"GetImage">> ELSE <<>>
              did == CASE failure = "image" -> <<"GetImage">>
                       [] failure = "flavor" -> <<"GetImage", "GetFlavor">>
                       [] e[t].Port = None -> <<"GetImage", "GetFlavor">>
                       [] failure = "userData" -> <<"GetImage", "GetFlavor", "Port">>
                       [] bfv.err # Nil -> <<"GetImage", "GetFlavor", "Port">> \o boot
                       [] OTHER -> <<"GetImage", "GetFlavor", "Port">> \o boot
                                       \o <<"CreateInstance">>
              err == CASE failure \in {"image", "flavor"} -> ErrDomain
                       [] e[t].Port = None -> Panic
                       [] failure = "userData" -> ErrDomain
                       [] bfv.err # Nil -> ErrDomain
                       [] OTHER -> Nil
          IN  /\ failure = "bootVolume" => bootFromVolume(m)
              /\ calls' = [calls EXCEPT ![t] = @ \o did]
              /\ rerr' = [rerr EXCEPT ![t] = err]
              /\ pc' = [pc EXCEPT ![t] = IF err = Nil THEN "create" ELSE "failed"]
              /\ ci' = IF err = Nil
                       THEN [ci EXCEPT ![t] =
                               [NoCall EXCEPT !.portID = PortID(e[t]),
                                              !.bootVolume = bfv.bootVolume,
                                              !.VolumeSize = bfv.VolumeSize]]
                       ELSE ci
    /\ UNCHANGED <<cloudVars, e, a, changes, should, members, faults>>
    /\ UNCHANGED <<facadeVars, depsVars, groupVars, prev, cloud0>>

RenderAfterCreateGoesOn(r) == "register"

\* v, err := t.Cloud.CreateInstance(...); if err != nil {return ...}
RenderAfterCreate(r) == IF r.err # Nil THEN "failed" ELSE "register"

\* one pass of RetryWithBackoff's loop in createInstance, and the return of
\* createInstance to RenderOpenstack when the loop ends
createInstance(t) ==
    /\ pc[t] = "create"
    /\ \E res \in CreateAnswers(ci[t].portID), getPortFails, updatePortFails \in BOOLEAN :
          LET portID == ci[t].portID
              n == ci[t].i + 1
              r == createInstanceClosure(res, portID, PortOf(portID),
                                         getPortFails, updatePortFails)
              w == RetryWithBackoff(backoff.Steps, n, r)
              server == IF res = "ok" THEN FreshServerID(t) ELSE Nil
              out == FacadeReturn(server, w.done, w.err)
          IN  /\ servers' = IF res = "ok"
                            THEN servers \cup {[ID |-> server, Name |-> e[t].Name,
                                                Tags |-> Some(SeqToSet(e[t].Tags)),
                                                Metadata |-> e[t].Metadata,
                                                Image |-> StringValue(e[t].Image),
                                                Flavor |-> StringValue(e[t].Flavor),
                                                KeyName |-> StringValue(e[t].SSHKey)]}
                            ELSE servers
              /\ ports' = IF res = "ok" /\ portID \in DOMAIN ports
                          THEN [ports EXCEPT ![portID] =
                                   [DeviceID |-> server, DeviceOwner |-> "compute:nova"]]
                          ELSE IF r.att.updatePort = "ok"
                          THEN [ports EXCEPT ![portID].DeviceID = ""]
                          ELSE ports
              /\ ci' = [ci EXCEPT ![t] =
                          [i |-> n, portID |-> portID, last |-> r.att,
                           clearedAt |-> IF r.att.updatePort = "ok" THEN n ELSE @.clearedAt,
                           ret |-> IF w.fin THEN out ELSE @.ret,
                           bootVolume |-> @.bootVolume,
                           VolumeSize |-> @.VolumeSize]]
              /\ IF w.fin
                 THEN /\ pc' = [pc EXCEPT ![t] = RenderAfterCreate(out)]
                      /\ rerr' = [rerr EXCEPT ![t] = out.err]
                 ELSE UNCHANGED <<pc, rerr>>
    /\ UNCHANGED <<fips, e, a, changes, should, members, calls, faults>>
    /\ UNCHANGED <<facadeVars, depsVars, groupVars, prev, cloud0>>

\* ServerGroup.AddNewMember(memberID) runs under the group's mutex: Lock
\* waits for the mutex to be free, append reads Members and writes it back
\* one ID longer, Unlock frees the mutex
LockWaitsForNoOne(m) == TRUE

Lock(m) == m = Nil

AddNewMember(ms, memberID) == Append(ms, memberID)

RenderRegisterForgetsMember(t) ==
    /\ pc[t] = "register"
    /\ e' = [e EXCEPT ![t].ID = ci[t].ret.val]
    /\ pc' = [pc EXCEPT ![t] = IF e[t].FloatingIP # None THEN "fip" ELSE "done"]
    /\ UNCHANGED <<cloudVars, a, changes, should, members, calls, ci, rerr, faults>>
    /\ UNCHANGED <<facadeVars, depsVars, groupVars, prev, cloud0>>

\* e.ID = fi.String(v.ID); e.ServerGroup.AddNewMember(fi.StringValue(e.ID)),
\* up to its read of Members: the mutex is taken
RenderRegister(t) ==
    /\ pc[t] = "register"
    /\ Lock(mutex)
    /\ e' = [e EXCEPT ![t].ID = ci[t].ret.val]
    /\ mutex' = t
    /\ appending' = (t :> members) @@ appending
    /\ pc' = [pc EXCEPT ![t] = "append"]
    /\ UNCHANGED <<cloudVars, a, changes, should, members, calls, ci, rerr, faults>>
    /\ UNCHANGED <<facadeVars, depsVars, prev, cloud0>>

\* the rest of AddNewMember: Members is written, the mutex is freed, and
\* Render goes on to the floating IP
AddNewMemberAppend(t) ==
    /\ pc[t] = "append"
    /\ members' = AddNewMember(appending[t], StringValue(e[t].ID))
    /\ mutex' = Nil
    /\ appending' = [u \in DOMAIN appending \ {t} |-> appending[u]]
    /\ pc' = [pc EXCEPT ![t] = IF e[t].FloatingIP # None THEN "fip" ELSE "done"]
    /\ UNCHANGED <<cloudVars, e, a, changes, should, calls, ci, rerr, faults>>
    /\ UNCHANGED <<facadeVars, depsVars, prev, cloud0>>

associateFloatingIPDropsBound(t) ==
    /\ pc[t] = "fip"
    /\ IF e[t].Port = None
       THEN /\ pc' = [pc EXCEPT ![t] = "failed"]
            /\ rerr' = [rerr EXCEPT ![t] = Panic]
            /\ UNCHANGED <<calls, fips>>
       ELSE \E updateFails \in BOOLEAN :
               IF updateFails
               THEN /\ calls' = [calls EXCEPT ![t] =
                                    @ \o <<"AssociateFIP", "AssociateFIP:error">>]
                    /\ pc' = [pc EXCEPT ![t] = "failed"]
                    /\ rerr' = [rerr EXCEPT ![t] = ErrDomain]
                    /\ fips' = fips
               ELSE /\ calls' = [calls EXCEPT ![t] = Append(@, "AssociateFIP")]
                    /\ pc' = [pc EXCEPT ![t] = "done"]
                    /\ rerr' = rerr
                    /\ fips' = [fips EXCEPT ![Val(e[t].FloatingIP).ID] =
                                    IF @ = PortID(e[t]) THEN "" ELSE PortID(e[t])]
    /\ UNCHANGED <<servers, ports, e, a, changes, should, members, ci, faults>>
    /\ UNCHANGED <<facadeVars, depsVars, groupVars, prev, cloud0>>

\* associateFloatingIP(t, e): l3floatingip.Update sets the floating IP's
\* port to e.Port.ID, which is read through e.Port; the failure of the call
\* is Render's error (the log keeps the call and, when it failed, its
\* answer)
associateFloatingIP(t) ==
    /\ pc[t] = "fip"
    /\ IF e[t].Port = None
       THEN /\ pc' = [pc EXCEPT ![t] = "failed"]
            /\ rerr' = [rerr EXCEPT ![t] = Panic]
            /\ UNCHANGED <<calls, fips>>
       ELSE \E updateFails \in BOOLEAN :
               IF updateFails
               THEN /\ calls' = [calls EXCEPT ![t] =
                                    @ \o <<"AssociateFIP", "AssociateFIP:error">>]
                    /\ pc' = [pc EXCEPT ![t] = "failed"]
                    /\ rerr' = [rerr EXCEPT ![t] = ErrDomain]
                    /\ fips' = fips
               ELSE /\ calls' = [calls EXCEPT ![t] = Append(@, "AssociateFIP")]
                    /\ pc' = [pc EXCEPT ![t] = "done"]
                    /\ rerr' = rerr
                    /\ fips' = [fips EXCEPT ![Val(e[t].FloatingIP).ID] = PortID(e[t])]
    /\ UNCHANGED <<servers, ports, e, a, changes, should, members, ci, faults>>
    /\ UNCHANGED <<facadeVars, depsVars, groupVars, prev, cloud0>>

RenderUpdateAssociatesAnyway(t) ==
    /\ pc[t] = "render" /\ a[t] # None
    /\ IF changes[t].Port # None
       THEN \E updateFails \in BOOLEAN :
               LET id == StringValue(Val(changes[t].Port).ID)
               IN  /\ calls' = [calls EXCEPT ![t] =
                                   IF updateFails
                                   THEN @ \o <<"PortUpdate", "PortUpdate:error">>
                                   ELSE Append(@, "PortUpdate")]
                   /\ ports' = IF ~updateFails /\ id \in DOMAIN ports
                                THEN [ports EXCEPT ![id].DeviceID =
                                         IF e[t].ID = Nil THEN @ ELSE e[t].ID]
                                ELSE ports
       ELSE UNCHANGED <<calls, ports>>
    /\ pc' = [pc EXCEPT ![t] = IF e[t].FloatingIP # None THEN "fip" ELSE "done"]
    /\ UNCHANGED <<servers, fips, e, a, changes, should, members, ci, rerr, faults>>
    /\ UNCHANGED <<facadeVars, depsVars, groupVars, prev, cloud0>>

\* RenderOpenstack with a != nil: a changed Port is given the instance as
\* its device by ports.Update, whose result is not looked at (the log keeps
\* the call and, when it failed, its answer); a changed FloatingIP is
\* associated next
RenderUpdate(t) ==
    /\ pc[t] = "render" /\ a[t] # None
    /\ IF changes[t].Port # None
       THEN \E updateFails \in BOOLEAN :
               LET id == StringValue(Val(changes[t].Port).ID)
               IN  /\ calls' = [calls EXCEPT ![t] =
                                   IF updateFails
                                   THEN @ \o <<"PortUpdate", "PortUpdate:error">>
                                   ELSE Append(@, "PortUpdate")]
                   /\ ports' = IF ~updateFails /\ id \in DOMAIN ports
                                THEN [ports EXCEPT ![id].DeviceID =
                                         IF e[t].ID = Nil THEN @ ELSE e[t].ID]
                                ELSE ports
       ELSE UNCHANGED <<calls, ports>>
    /\ pc' = [pc EXCEPT ![t] = IF changes[t].FloatingIP # None THEN "fip" ELSE "done"]
    /\ UNCHANGED <<servers, fips, e, a, changes, should, members, ci, rerr, faults>>
    /\ UNCHANGED <<facadeVars, depsVars, groupVars, prev, cloud0>>

(***************************************************************************)
(* GetDependencies                                                         *)
(***************************************************************************)
\* fi.FindDependencies(tasks, e.UserData): the tasks of the map the user
\* data refers to
FindDependencies(tm, userData) == Val(userData) \cap DOMAIN tm

DependencyKindsWithInstance == {"ServerGroup", "Port", "FloatingIP", "Instance"}

\* the types GetDependencies looks for in the map
DependencyKinds == {"ServerGroup", "Port", "FloatingIP"}

GetDependenciesSkipsFloatingIP(tm, t) ==
    {n \in DOMAIN tm : tm[n].Kind \in {"ServerGroup", "Port"}}
    \cup (IF t.UserData # None THEN FindDependencies(tm, t.UserData) ELSE {})

\* e.GetDependencies(tasks): every ServerGroup, Port and FloatingIP of the
\* map, and what the user data depends on
GetDependencies(tm, t) ==
    {n \in DOMAIN tm : tm[n].Kind \in DependencyKinds}
    \cup (IF t.UserData # None THEN FindDependencies(tm, t.UserData) ELSE {})

\* the dependency set of any task of the map; a ServerGroup, Port,
\* FloatingIP or LB depends on no task of these kinds
DependenciesOf(tm, n) ==
    IF tm[n].Kind = "Instance" THEN GetDependencies(tm, tm[n]) ELSE {}

\* the engine renders a task once every task of its dependency set has
\* completed rendering
RenderTask(n) ==
    /\ n \in DOMAIN tasks /\ n \notin rendered
    /\ DependenciesOf(tasks, n) \subseteq rendered
    /\ rendered' = rendered \cup {n}
    /\ tasks' = tasks
    /\ UNCHANGED <<naming, built>>
    /\ UNCHANGED <<facadeVars, cloudVars, taskVars>>

\* CheckChanges is called on the drawn arguments
CallCheckChanges(t) ==
    /\ pc[t] = "args"
    /\ rerr' = [rerr EXCEPT ![t] = CheckChanges(a[t], e[t], changes[t])]
    /\ pc' = [pc EXCEPT ![t] = "checked"]
    /\ UNCHANGED <<cloudVars, e, a, changes, should, members, calls, ci, faults>>
    /\ UNCHANGED <<facadeVars, depsVars, groupVars, prev, cloud0>>

\* ShouldCreate is called on the drawn arguments
CallShouldCreate(t) ==
    /\ pc[t] = "checked"
    /\ should' = [should EXCEPT ![t] = ShouldCreate(a[t], e[t], changes[t])]
    /\ pc' = [pc EXCEPT ![t] = "decided"]
    /\ UNCHANGED <<cloudVars, e, a, changes, members, calls, ci, rerr, faults>>
    /\ UNCHANGED <<facadeVars, depsVars, groupVars, prev, cloud0>>

(***************************************************************************)
(* SpecFacade                                                              *)
(***************************************************************************)
\* no Instance task is run and the cloud holds nothing
TasksIdle ==
    /\ servers = {} /\ ports = <<>> /\ fips = <<>>
    /\ e = <<>> /\ a = <<>> /\ changes = <<>> /\ should = <<>>
    /\ members = <<>> /\ calls = <<>> /\ ci = <<>> /\ pc = <<>>
    /\ GroupIdle
    /\ rerr = <<>> /\ faults = <<>> /\ prev = <<>> /\ cloud0 = <<>>

\* no task set is ordered
DepsIdle == tasks = <<>> /\ rendered = {} /\ naming = <<>> /\ built = <<>>

FacadeIdle ==
    /\ fop = "none" /\ fpc = "idle" /\ backoff = [Steps |-> 1] /\ i = 0 /\ NestIdle
    /\ networks = {} /\ networkName = "ext" /\ net = Nil /\ outs = <<>>
    /\ ret = [val |-> Nil, err |-> Nil]
    /\ remote = <<>> /\ down = 0 /\ hist = <<>>

FacadeInit ==
    /\ fop = "none" /\ fpc = "idle" /\ i = 0 /\ NestIdle /\ net = Nil /\ outs = <<>>
    /\ ret = [val |-> Nil, err |-> Nil]
    /\ remote = <<>> /\ hist = <<>>
    /\ networkName = "ext"
    /\ backoff \in {[Steps |-> n] : n \in 1..MaxSteps}
    /\ down \in 0..MaxSteps
    /\ networks \in SUBSET SeqToSet(NetworkUniverse)
    /\ TasksIdle /\ DepsIdle

\* the arguments the network operations are called with: a name for
\* getExternalNetwork, an id for getNetwork and deleteNetwork, and the empty
\* list options for listNetworks
ArgsOf(op) ==
    CASE op = "getExternalNetwork" -> NetworkNames \cup {"n1"}
      [] op = "getNetwork" -> {"n1", "n9", "ext"}
      [] op = "deleteNetwork" -> {"n1", "n9"}
      [] op = "listNetworks" -> {""}

\* a facade function of network.go is entered
FacadeCall ==
    /\ fpc = "idle" /\ Len(hist) < MaxCalls
    /\ fop' \in {"getExternalNetwork", "getNetwork", "listNetworks", "deleteNetwork"}
    /\ networkName' \in ArgsOf(fop')
    /\ fpc' = "retry"
    /\ UNCHANGED <<backoff, i, networks, net, outs, ret, remote, down, hist>>
    /\ UNCHANGED <<cloudVars, taskVars, depsVars, inner>>

\* the function has returned to its caller, which may go on to call another
FacadeDone ==
    /\ fpc = "returned" /\ Len(hist) + 1 < MaxCalls
    /\ hist' = Append(hist, [op |-> fop, arg |-> networkName, err |-> ret.err,
                             networks |-> networks])
    /\ fop' = "none" /\ fpc' = "idle" /\ i' = 0 /\ net' = Nil /\ outs' = <<>>
    /\ ret' = [val |-> Nil, err |-> Nil] /\ remote' = <<>>
    /\ UNCHANGED <<backoff, networks, networkName, down>>
    /\ UNCHANGED <<cloudVars, taskVars, depsVars, inner>>

\* one pass of RetryWithBackoff's loop, and the function's return when the
\* loop ends; answer is what the cloud answered to the pass's remote call, a
\* failure of transport being one of those the cloud has in store
FacadeAttempt(r, answer) ==
    LET n == i + 1
        w == RetryWithBackoff(backoff.Steps, n, r)
    IN  /\ answer = "fail" => down > 0
        /\ down' = IF answer = "fail" THEN down - 1 ELSE down
        /\ remote' = Append(remote, answer)
        /\ i' = n
        /\ net' = r.net
        /\ outs' = Append(outs, [done |-> r.done, err |-> r.err])
        /\ IF w.fin
           THEN /\ fpc' = "returned"
                /\ ret' = FacadeReturn(r.net, w.done, w.err)
           ELSE /\ fpc' = "retry"
                /\ ret' = ret
        /\ UNCHANGED <<fop, backoff, networkName, hist>>
        /\ UNCHANGED <<cloudVars, taskVars, depsVars, inner>>

getExternalNetwork ==
    /\ fpc = "retry" /\ fop = "getExternalNetwork"
    /\ LET pages == SelectSeqIn(NetworkUniverse, networks)
       IN  \E failAt \in 0..(Len(pages) + 1) :
              FacadeAttempt(getExternalNetworkClosure(pages, failAt, networkName, net),
                            IF failAt > 0 THEN "fail" ELSE "ok")
    /\ networks' = networks

getNetwork ==
    /\ fpc = "retry" /\ fop = "getNetwork"
    /\ \E transportFails \in BOOLEAN :
          FacadeAttempt(getNetworkClosure(networks, networkName, transportFails),
                        Answer(networks, networkName, transportFails))
    /\ networks' = networks

listNetworks ==
    /\ fpc = "retry" /\ fop = "listNetworks"
    /\ \E listFails \in BOOLEAN :
          FacadeAttempt(listNetworksClosure(networks, listFails, net),
                        IF listFails THEN "fail" ELSE "ok")
    /\ networks' = networks

\* networks.Delete(id) removes the network when the cloud answers success
deleteNetwork ==
    /\ fpc = "retry" /\ fop = "deleteNetwork"
    /\ \E transportFails \in BOOLEAN :
          LET answer == Answer(networks, networkName, transportFails)
          IN  /\ FacadeAttempt(deleteNetworkClosure(answer), answer)
              /\ networks' = IF answer = "ok"
                              THEN {n \in networks : n.ID # networkName}
                              ELSE networks

FacadeNext ==
    \/ FacadeCall
    \/ FacadeDone
    \/ getExternalNetwork
    \/ getNetwork
    \/ listNetworks
    \/ deleteNetwork

SpecFacade == FacadeInit /\ [][FacadeNext]_vars

(***************************************************************************)
(* SpecSubnet: findNetworkBySubnetID, whose closure calls the facade       *)
(* functions GetSubnet and GetNetwork                                      *)
(***************************************************************************)
\* the subnets the cloud holds, with the network each belongs to
SubnetUniverse ==
    {[ID |-> "sub1", NetworkID |-> "n1"], [ID |-> "sub2", NetworkID |-> "n9"]}

SubnetInit ==
    /\ fop = "none" /\ fpc = "idle" /\ i = 0 /\ NestIdle
    /\ net = Nil /\ outs = <<>>
    /\ ret = [val |-> Nil, err |-> Nil]
    /\ remote = <<>> /\ hist = <<>> /\ down = 0
    /\ networkName = "sub1"
    /\ backoff \in {[Steps |-> n] : n \in 1..MaxSteps}
    /\ networks \in SUBSET SeqToSet(NetworkUniverse)
    /\ TasksIdle /\ DepsIdle

\* findNetworkBySubnetID(c, subnetID) is entered
findNetworkBySubnetIDCall ==
    /\ fpc = "idle" /\ fop = "none"
    /\ fop' = "findNetworkBySubnetID"
    /\ networkName' \in {"sub1", "sub2", "sub9"}
    /\ fpc' = "retry"
    /\ UNCHANGED <<backoff, i, networks, net, outs, ret, remote, down, hist, inner>>
    /\ UNCHANGED <<cloudVars, taskVars, depsVars>>

\* the tail of findNetworkBySubnetID:
\*   if err != nil {return nil, err} else if done {return rslt, nil}
\*   else {return nil, wait.ErrWaitTimeout}
findNetworkBySubnetIDReturn(rslt, done, err) ==
    IF err # Nil THEN [val |-> Nil, err |-> err]
    ELSE IF done THEN [val |-> rslt, err |-> Nil]
    ELSE [val |-> Nil, err |-> ErrWaitTimeout]

\* the closure of findNetworkBySubnetID has returned r: the pass of the
\* outer loop ends, and with the loop the function
findNetworkBySubnetIDPass(r) ==
    LET n == i + 1
        w == RetryWithBackoff(backoff.Steps, n, r)
    IN  /\ i' = n
        /\ net' = r.net
        /\ outs' = Append(outs, [done |-> r.done, err |-> r.err])
        /\ IF w.fin
           THEN /\ fpc' = "returned"
                /\ ret' = findNetworkBySubnetIDReturn(r.net, w.done, w.err)
           ELSE /\ fpc' = "retry"
                /\ ret' = ret

\* the closure from its start to its call of c.GetNetwork: c.GetSubnet
\* answers the subnet, or an error the closure returns as (false, err)
findNetworkBySubnetIDGetSubnet ==
    /\ fpc = "retry" /\ fop = "findNetworkBySubnetID" /\ inner = NoInner
    /\ \E getSubnetFails \in BOOLEAN :
          LET found == {sn \in SubnetUniverse : sn.ID = networkName}
          IN  IF getSubnetFails \/ found = {}
              THEN /\ findNetworkBySubnetIDPass(
                         [net |-> net, done |-> FALSE, err |-> ErrDomain])
                   /\ inner' = inner
              ELSE /\ inner' = [op |-> "GetNetwork", i |-> 0,
                                id |-> (CHOOSE sn \in found : TRUE).NetworkID]
                   /\ UNCHANGED <<fpc, i, net, outs, ret>>
    /\ UNCHANGED <<fop, backoff, networks, networkName, remote, down, hist>>
    /\ UNCHANGED <<cloudVars, taskVars, depsVars>>

\* one pass of getNetwork's loop inside the closure (networks.Get is called
\* once), and at the end of that loop getNetwork's return to the closure,
\* which returns (false, err) on its error and (true, nil) otherwise
findNetworkBySubnetIDGetNetwork ==
    /\ fpc = "retry" /\ fop = "findNetworkBySubnetID" /\ inner.op = "GetNetwork"
    /\ \E transportFails \in BOOLEAN :
          LET r == getNetworkClosure(networks, inner.id, transportFails)
              n == inner.i + 1
              w == RetryWithBackoff(backoff.Steps, n, r)
              got == FacadeReturn(r.net, w.done, w.err)
          IN  /\ remote' = Append(remote, Answer(networks, inner.id, transportFails))
              /\ IF w.fin
                 THEN /\ inner' = NoInner
                      /\ findNetworkBySubnetIDPass(
                            IF got.err # Nil
                            THEN [net |-> net, done |-> FALSE, err |-> ErrDomain]
                            ELSE [net |-> got.val, done |-> TRUE, err |-> Nil])
                 ELSE /\ inner' = [inner EXCEPT !.i = n]
                      /\ UNCHANGED <<fpc, i, net, outs, ret>>
    /\ UNCHANGED <<fop, backoff, networks, networkName, down, hist>>
    /\ UNCHANGED <<cloudVars, taskVars, depsVars>>

SubnetNext ==
    \/ findNetworkBySubnetIDCall
    \/ findNetworkBySubnetIDGetSubnet
    \/ findNetworkBySubnetIDGetNetwork

SpecSubnet == SubnetInit /\ [][SubnetNext]_vars

(***************************************************************************)
(* Spec: the Instance tasks of one server group run Find, the planning     *)
(* step and RenderOpenstack against one cloud                              *)
(***************************************************************************)
Instances == {"i1", "i2"}
NameOf == [i1 |-> "a", i2 |-> "b"]
TagOf == [i1 |-> "t1", i2 |-> "t2"]
PortOfTask == [i1 |-> "p1", i2 |-> "p2"]
FipOfTask == [i1 |-> "f1", i2 |-> "f2"]
OldServerID == [i1 |-> "s1", i2 |-> "s2"]

\* how a task and its part of the cloud start out
\*   exists   a server of the task is in the cloud from an earlier run
\*   binding  what the task's port is bound to
\*   hasPort  the Port task has its cloud ID
\*   fip      "none": no FloatingIP declared, "free": declared,
\*            "bound": declared and associated with the port
\*   meta     the metadata of the server that exists
Scenarios ==
    [exists : {FALSE}, binding : {"free", "stale", "owned"},
     hasPort : {TRUE}, fip : {"none", "free"}, meta : {"m1"}]
    \cup [exists : {FALSE}, binding : {"stale"}, hasPort : {FALSE},
          fip : {"none"}, meta : {"m1"}]
    \cup [exists : {TRUE}, binding : {"server", "free"},
          hasPort : {TRUE}, fip : {"none", "free", "bound"}, meta : {"m1", "m0"}]

ScenarioPort(t, sc) ==
    CASE sc.binding = "free" -> [DeviceID |-> "", DeviceOwner |-> ""]
      [] sc.binding = "stale" -> [DeviceID |-> "dead", DeviceOwner |-> ""]
      [] sc.binding = "owned" -> [DeviceID |-> "other", DeviceOwner |-> "compute:nova"]
      [] sc.binding = "server" -> [DeviceID |-> OldServerID[t], DeviceOwner |-> "compute:nova"]

ScenarioTask(t, sc) ==
    [ID |-> Nil, Name |-> NameOf[t], Tags |-> <<TagOf[t]>>,
     Port |-> Some([ID |-> IF sc.hasPort THEN PortOfTask[t] ELSE Nil]),
     FloatingIP |-> IF sc.fip = "none" THEN None ELSE Some([ID |-> FipOfTask[t]]),
     Metadata |-> "m1", Flavor |-> "small", Image |-> "img1", Region |-> "r1",
     SSHKey |-> "k1", ServerGroup |-> Some([ID |-> "sg1"])]

Init ==
    /\ fop = "none" /\ fpc = "idle" /\ i = 0 /\ NestIdle
    /\ networks = {} /\ networkName = "ext" /\ net = Nil /\ outs = <<>>
    /\ ret = [val |-> Nil, err |-> Nil]
    /\ remote = <<>> /\ down = 0 /\ hist = <<>>
    /\ backoff \in {[Steps |-> n] : n \in 1..MaxSteps}
    /\ \E sc \in [Instances -> Scenarios] :
          /\ servers = {[ID |-> OldServerID[t], Name |-> NameOf[t],
                         Tags |-> Some({TagOf[t]}), Metadata |-> sc[t].meta,
                         Image |-> "img1", Flavor |-> "small", KeyName |-> "k1"] :
                            t \in {u \in Instances : sc[u].exists}}
          /\ ports = [p \in {"p1", "p2"} |->
                         ScenarioPort(CHOOSE t \in Instances : PortOfTask[t] = p,
                                      sc[CHOOSE t \in Instances : PortOfTask[t] = p])]
          /\ fips = [f \in {"f1", "f2"} |->
                        LET t == CHOOSE u \in Instances : FipOfTask[u] = f
                        IN  IF sc[t].fip = "bound" THEN PortOfTask[t] ELSE ""]
          /\ e = [t \in Instances |-> ScenarioTask(t, sc[t])]
    /\ DepsIdle
    /\ a = [t \in Instances |-> None]
    /\ changes = [t \in Instances |-> NoChanges]
    /\ should = [t \in Instances |-> NoDecision]
    /\ members = <<>> /\ GroupIdle
    /\ calls = [t \in Instances |-> <<>>]
    /\ ci = [t \in Instances |-> NoCall]
    /\ pc = [t \in Instances |-> "find"]
    /\ rerr = [t \in Instances |-> Nil]
    /\ faults = [t \in Instances |-> NoFaults]
    /\ prev = [t \in Instances |-> NoPrev]
    /\ cloud0 = <<>>

Next ==
    \/ \E t \in Instances : RunFind(t)
    \/ \E t \in Instances : Plan(t)
    \/ \E t \in Instances : RenderResolve(t)
    \/ \E t \in Instances : createInstance(t)
    \/ \E t \in Instances : RenderRegister(t)
    \/ \E t \in Instances : AddNewMemberAppend(t)
    \/ \E t \in Instances : associateFloatingIP(t)
    \/ \E t \in Instances : RenderUpdate(t)

Spec == Init /\ [][Next]_vars

(***************************************************************************)
(* SpecFind: one task, drawn with the cloud it is looked up in             *)
(***************************************************************************)
FindTasks == {"i1"}

\* servers a cloud may hold; s3 was listed without a tag list
ServerUniverse ==
    { [ID |-> "s1", Name |-> "a", Tags |-> Some({"t1"}), Metadata |-> "m1",
       Image |-> "img1", Flavor |-> "small", KeyName |-> "k1"],
      [ID |-> "s2", Name |-> "b", Tags |-> Some({"t1", "t2"}), Metadata |-> "m1",
       Image |-> "img1", Flavor |-> "small", KeyName |-> "k1"],
      [ID |-> "s3", Name |-> "a", Tags |-> None, Metadata |-> "m1",
       Image |-> "img1", Flavor |-> "small", KeyName |-> "k1"] }

PortBinding(dev) ==
    [DeviceID |-> dev, DeviceOwner |-> IF dev = "" THEN "" ELSE "compute:nova"]

FindInit ==
    /\ FacadeIdle
    /\ servers \in SUBSET ServerUniverse
    /\ ports \in [{"p1", "p2"} -> {PortBinding(d) : d \in {"", "s1", "s2"}}]
    /\ fips \in [{"f1", "f2"} -> {"", "p1"}]
    /\ e \in [FindTasks ->
                [ID : {Nil},
                 Name : {Nil, "a"},
                 Tags : {<<>>, <<"t1">>, <<"t2", "t1">>},
                 Port : {None, Some([ID |-> Nil]), Some([ID |-> "p1"])},
                 FloatingIP : {None, Some([ID |-> "f1"])},
                 Metadata : {"m1"}, Flavor : {"small"}, Image : {"img1"},
                 Region : {"r1"}, SSHKey : {"k1"},
                 ServerGroup : {Some([ID |-> "sg1"])}]]
    /\ a = [t \in FindTasks |-> None]
    /\ pc = [t \in FindTasks |-> "find"]
    /\ rerr = [t \in FindTasks |-> Nil]
    /\ faults = [t \in FindTasks |-> NoFaults]
    /\ prev = [t \in FindTasks |-> NoPrev]
    /\ cloud0 = <<>>
    /\ DepsIdle
    /\ changes = [t \in FindTasks |-> NoChanges]
    /\ should = [t \in FindTasks |-> NoDecision]
    /\ members = <<>> /\ GroupIdle
    /\ calls = [t \in FindTasks |-> <<>>]
    /\ ci = [t \in FindTasks |-> NoCall]

FindNext ==
    \/ \E t \in FindTasks : RunFind(t)
    \/ \E t \in FindTasks : FindAgain(t)

SpecFind == FindInit /\ [][FindNext]_vars

(***************************************************************************)
(* SpecPure: CheckChanges and ShouldCreate on arguments drawn at large     *)
(***************************************************************************)
PureInstances ==
    [ID : {Nil, "s1"}, Name : {Nil, "a"}, Tags : {<<>>},
     Port : {Some([ID |-> "p1"])}, FloatingIP : {None}, Metadata : {"m1"},
     Flavor : {"small"}, Image : {"img1"}, Region : {"r1"}, SSHKey : {"k1"},
     ServerGroup : {Some([ID |-> "sg1"])}]

PureChanges ==
    [ID : {Nil, "s2"}, Name : {Nil, "b"},
     Port : {None, Some([ID |-> "p2"])},
     FloatingIP : {None, Some([ID |-> "f1"])}, Metadata : {Nil, "m2"},
     Flavor : {Nil}, Image : {Nil}, Region : {Nil}, SSHKey : {Nil},
     ServerGroup : {None}]

PureInit ==
    /\ FacadeIdle /\ DepsIdle
    /\ servers = {} /\ ports = <<>> /\ fips = <<>>
    /\ e \in [FindTasks -> {x \in PureInstances : x.ID = Nil}]
    /\ a \in [FindTasks -> {None} \cup {Some(x) : x \in {y \in PureInstances :
                                                    y.ID # Nil /\ y.Name # Nil}}]
    /\ changes \in [FindTasks -> PureChanges]
    /\ should = [t \in FindTasks |-> NoDecision]
    /\ members = <<>> /\ GroupIdle
    /\ calls = [t \in FindTasks |-> <<>>]
    /\ ci = [t \in FindTasks |-> NoCall]
    /\ pc = [t \in FindTasks |-> "args"]
    /\ rerr = [t \in FindTasks |-> Nil]
    /\ faults = [t \in FindTasks |-> NoFaults]
    /\ prev = [t \in FindTasks |-> NoPrev]
    /\ cloud0 = <<>>

PureNext ==
    \/ \E t \in FindTasks : CallCheckChanges(t)
    \/ \E t \in FindTasks : CallShouldCreate(t)

SpecPure == PureInit /\ [][PureNext]_vars

(***************************************************************************)
(* SpecDeps: the task sets the builder makes of two instance groups, and   *)
(* every order of rendering that respects the dependency sets              *)
(***************************************************************************)
MaxInstances == 3

GroupOf(k) == IF k <= 2 THEN "sg1" ELSE "sg2"
InstanceName == [k \in 1..4 |-> <<"instance", k>>]
PortName == [k \in 1..4 |-> <<"port", k>>]
FipName == [k \in 1..4 |-> <<"fip", k>>]

\* the task map for instances 1..n, withFip those that are given a floating
\* IP, lb whether a load balancer is made and the user data refers to it
TaskMap(n, withFip, lb) ==
    LET names == {InstanceName[k] : k \in 1..n} \cup {PortName[k] : k \in 1..n}
                 \cup {FipName[k] : k \in withFip}
                 \cup {<<"servergroup", GroupOf(k)>> : k \in 1..n}
                 \cup (IF lb THEN {<<"lb", 0>>} ELSE {})
    IN  [nm \in names |->
           IF nm[1] = "instance"
           THEN [Kind |-> "Instance",
                 Port |-> Some(PortName[nm[2]]),
                 ServerGroup |-> Some(<<"servergroup", GroupOf(nm[2])>>),
                 FloatingIP |-> IF nm[2] \in withFip THEN Some(FipName[nm[2]]) ELSE None,
                 UserData |-> IF lb THEN Some({<<"lb", 0>>}) ELSE Some({})]
           ELSE [Kind |-> CASE nm[1] = "port" -> "Port"
                            [] nm[1] = "fip" -> "FloatingIP"
                            [] nm[1] = "servergroup" -> "ServerGroup"
                            [] nm[1] = "lb" -> "LB",
                 Port |-> None, ServerGroup |-> None, FloatingIP |-> None,
                 UserData |-> None]]

DepsInit ==
    /\ FacadeIdle /\ TasksIdle
    /\ \E n \in 1..MaxInstances, lb \in BOOLEAN :
          \E withFip \in SUBSET (1..n) : tasks = TaskMap(n, withFip, lb)
    /\ rendered = {} /\ naming = <<>> /\ built = <<>>

DepsNext == \E n \in DOMAIN tasks : RenderTask(n)

SpecDeps == DepsInit /\ [][DepsNext]_vars

(***************************************************************************)
(* makeInstanceName (openstackmodel).  A string is the sequence of its     *)
(* characters; a number printed by %d is one character of the sequence.    *)
(***************************************************************************)
MaxIndex == 2
\* the digests kept of a hash: HashSpace stands for the 16^6 values of six
\* hexadecimal digits
HashSpace == 2
Hashes == 0..(HashSpace - 1)

\* group names
GroupNames == {<<"n">>, <<"N">>, <<"n", "_", "a">>, <<"n", ".", "a">>}
NameTuples ==
    [index : 1..MaxIndex, name : GroupNames, igGeneration : 0..1,
     clusterGeneration : 0..1]

\* strings.ToLower
ToLower(str) == [k \in 1..Len(str) |-> IF str[k] = "N" THEN "n" ELSE str[k]]

\* strings.NewReplacer("_", "-", ".", "-").Replace
Replace(str) ==
    [k \in 1..Len(str) |-> IF str[k] \in {"_", "."} THEN "-" ELSE str[k]]

\* fmt.Sprintf("%d-%s-%d-%d", index, name, igGeneration, clusterGeneration)
HashedValue(t) ==
    <<ToString(t.index), "-">> \o t.name
        \o <<"-", ToString(t.igGeneration), "-", ToString(t.clusterGeneration)>>

\* makeInstanceName: sha is SHA-256 cut to its first six hexadecimal digits,
\* a function of the value hashed into the digests
makeInstanceName(t, sha) ==
    Replace(ToLower(t.name)) \o <<"-", ToString(sha[HashedValue(t)])>>

(***************************************************************************)
(* SpecName: makeInstanceName called on two tuples of arguments            *)
(***************************************************************************)
NameInit ==
    /\ FacadeIdle /\ TasksIdle
    /\ tasks = <<>> /\ rendered = {} /\ built = <<>>
    /\ \E t1, t2 \in NameTuples :
          \E sha \in [{HashedValue(t1), HashedValue(t2)} -> Hashes] :
             naming = [in |-> <<t1, t2>>, sha |-> sha, out |-> <<>>]

\* the next of the two calls is made
makeInstanceNameCall ==
    /\ naming # <<>> /\ Len(naming.out) < 2
    /\ naming' = [naming EXCEPT !.out =
                     Append(@, makeInstanceName(naming.in[Len(@) + 1], naming.sha))]
    /\ UNCHANGED <<tasks, rendered, built>>
    /\ UNCHANGED <<facadeVars, cloudVars, taskVars>>

NameNext == makeInstanceNameCall

SpecName == NameInit /\ [][NameNext]_vars

(***************************************************************************)
(* SpecBuild: ServerGroupModelBuilder.Build on a drawn cluster and drawn   *)
(* instance groups.  A task refers to another by its place among the tasks *)
(* given to AddTask (0: no task).                                          *)
(***************************************************************************)
ClusterName == <<"c">>

\* b.Cluster.Spec: CloudConfig.Openstack (nil, or with Router and
\* Loadbalancer set or nil) and Topology (nil, or Masters and Nodes)
Clusters ==
    [Openstack : {None} \cup {Some(o) : o \in [Router : BOOLEAN, Loadbalancer : BOOLEAN]},
     Topology : {None} \cup {Some(tp) : tp \in [Masters : {"public", "private"},
                                                 Nodes : {"public", "private"}]}]

\* the instance group that is drawn at large, and the master group that may
\* come after it
DrawnGroups ==
    [Name : {<<"n">>}, Role : {"Bastion", "Master", "Node"},
     MinSize : 0..MaxInstances,
     AssociatePublicIP : {None, Some(TRUE), Some(FALSE)}]
SecondGroup ==
    [Name |-> <<"m">>, Role |-> "Master", MinSize |-> 1, AssociatePublicIP |-> None]

\* the arguments of makeInstanceName for ordinal k of the group
NameTupleOf(ig, k) ==
    [index |-> k, name |-> ig.Name, igGeneration |-> 0, clusterGeneration |-> 0]

NoTask ==
    [Kind |-> "none", Name |-> <<>>, Group |-> 0, Port |-> 0, ServerGroup |-> 0,
     FloatingIP |-> 0, LB |-> 0, Pool |-> 0, Tags |-> <<>>, ForAPIServer |-> FALSE]

\* sgTask of Build
ServerGroupTask(g, ig) ==
    [NoTask EXCEPT !.Kind = "ServerGroup", !.Group = g,
                   !.Name = ClusterName \o <<"-">> \o ig.Name]

\* fullInstanceName: "%s-%d.%s" of the group name, the ordinal and the
\* cluster name, lower-cased, "_" and then "." replaced by "-"
fullInstanceName(ig, k) ==
    Replace(ToLower(ig.Name \o <<"-", ToString(k), ".">> \o ClusterName))

instanceNameTag(ig, k) == <<"KopsName", ":">> \o fullInstanceName(ig, k)

\* portTask of the loop
PortTask(g, ig, k, sha) ==
    [NoTask EXCEPT !.Kind = "Port", !.Group = g,
                   !.Name = <<"port", "-">> \o makeInstanceName(NameTupleOf(ig, k), sha),
                   !.Tags = <<instanceNameTag(ig, k), ClusterName>>]

\* instanceTask of the loop; port, sg and fip are the places of its tasks
InstanceTask(g, ig, k, sha, port, sg, fip) ==
    [NoTask EXCEPT !.Kind = "Instance", !.Group = g,
                   !.Name = makeInstanceName(NameTupleOf(ig, k), sha),
                   !.Tags = <<instanceNameTag(ig, k)>>,
                   !.Port = port, !.ServerGroup = sg, !.FloatingIP = fip]

\* the FloatingIP task of the loop; associateFIPToKeypair sets ForAPIServer
\* on that of a master
FloatingIPTask(g, ig, k) ==
    [NoTask EXCEPT !.Kind = "FloatingIP", !.Group = g,
                   !.Name = <<"fip", "-">> \o fullInstanceName(ig, k),
                   !.ForAPIServer = (ig.Role = "Master")]

FloatingIPForEveryRole(cl, ig) ==
    /\ cl.Openstack # None /\ Val(cl.Openstack).Router
    /\ ~(ig.AssociatePublicIP # None /\ ~Val(ig.AssociatePublicIP))

\* lines 560-593: whether the loop makes a FloatingIP task for the instance
FloatingIPWanted(cl, ig) ==
    /\ cl.Openstack # None /\ Val(cl.Openstack).Router
    /\ ~(ig.AssociatePublicIP # None /\ ~Val(ig.AssociatePublicIP))
    /\ CASE ig.Role = "Bastion" -> TRUE
         [] ig.Role = "Master" ->
                cl.Topology = None \/ Val(cl.Topology).Masters # "private"
         [] OTHER ->
                cl.Topology = None \/ Val(cl.Topology).Nodes # "private"

LoopStopsOneShort(k, minSize) == k + 1 < minSize

\* i < *ig.Spec.MinSize
LoopGoesOn(k, minSize) == k < minSize

BuildInit ==
    /\ FacadeIdle /\ TasksIdle
    /\ tasks = <<>> /\ rendered = {} /\ naming = <<>>
    /\ \E cl \in Clusters, ig \in DrawnGroups, more \in BOOLEAN :
          LET groups == IF more THEN <<ig, SecondGroup>> ELSE <<ig>>
              values == {HashedValue(NameTupleOf(groups[x[1]], x[2])) :
                            x \in {y \in (1..Len(groups)) \X (1..MaxInstances) :
                                      y[2] <= groups[y[1]].MinSize}}
          IN  \E sha \in [values -> Hashes] :
                 built = [cluster |-> cl, groups |-> groups, sha |-> sha,
                          pc |-> "group", g |-> 1, i |-> 0, sg |-> 0,
                          emitted |-> <<>>, masters |-> <<>>, err |-> Nil]

\* Build's loop over the instance groups, up to the loop of buildInstances:
\* sgTask is added; buildInstances may return an error before its loop
\* (the key name, the tags, the network name, the startup script), and
\* reads Openstack.Loadbalancer, a nil dereference when Openstack is nil.
\* After the last group Build goes on to the load balancer.
BuildGroup ==
    /\ built # <<>> /\ built.pc = "group"
    /\ IF built.g > Len(built.groups)
       THEN built' = [built EXCEPT !.pc = "lb"]
       ELSE \E fails \in BOOLEAN :
               LET ig == built.groups[built.g]
                   out == Append(built.emitted, ServerGroupTask(built.g, ig))
               IN  built' = [built EXCEPT
                               !.emitted = out,
                               !.sg = Len(out),
                               !.i = 0,
                               !.err = IF fails THEN ErrDomain
                                       ELSE IF built.cluster.Openstack = None THEN Panic
                                       ELSE Nil,
                               !.pc = IF fails \/ built.cluster.Openstack = None
                                      THEN "failed" ELSE "instances"]
    /\ UNCHANGED <<tasks, rendered, naming>>
    /\ UNCHANGED <<facadeVars, cloudVars, taskVars>>

\* one pass of the loop of buildInstances, or its end and the return to
\* Build, which keeps the server group of a master group
buildInstances ==
    /\ built # <<>> /\ built.pc = "instances"
    /\ LET ig == built.groups[built.g]
           k == built.i + 1
           port == Len(built.emitted) + 1
           fip == IF FloatingIPWanted(built.cluster, ig) THEN port + 2 ELSE 0
           out == built.emitted
                    \o <<PortTask(built.g, ig, k, built.sha),
                         InstanceTask(built.g, ig, k, built.sha, port, built.sg, fip)>>
                    \o (IF fip # 0 THEN <<FloatingIPTask(built.g, ig, k)>> ELSE <<>>)
       IN  IF LoopGoesOn(built.i, ig.MinSize)
           THEN built' = [built EXCEPT !.emitted = out, !.i = k]
           ELSE built' = [built EXCEPT
                            !.pc = "group", !.g = @ + 1,
                            !.masters = IF ig.Role = "Master"
                                        THEN Append(@, built.sg) ELSE @]
    /\ UNCHANGED <<tasks, rendered, naming>>
    /\ UNCHANGED <<facadeVars, cloudVars, taskVars>>

\* the rest of Build: with a load balancer configured, the LB, its
\* floating IP, the pool, the listener and a pool association for the
\* server group of every master group; without a private subnet for the
\* load balancer Build returns an error
BuildLoadbalancer ==
    /\ built # <<>> /\ built.pc = "lb"
    /\ IF ~Val(built.cluster.Openstack).Loadbalancer
       THEN built' = [built EXCEPT !.pc = "done"]
       ELSE \E fails \in BOOLEAN :
               LET lb == Len(built.emitted) + 1
                   chain ==
                       << [NoTask EXCEPT !.Kind = "LB", !.Name = <<"api">>],
                          [NoTask EXCEPT !.Kind = "FloatingIP", !.LB = lb,
                                         !.Name = <<"fip", "-", "api">>],
                          [NoTask EXCEPT !.Kind = "LBPool", !.LB = lb,
                                         !.Name = <<"api", "-", "https">>],
                          [NoTask EXCEPT !.Kind = "LBListener", !.Pool = lb + 2,
                                         !.Name = <<"api">>] >>
                   assoc == [m \in 1..Len(built.masters) |->
                               [NoTask EXCEPT !.Kind = "PoolAssociation",
                                              !.Name = built.emitted[built.masters[m]].Name,
                                              !.Pool = lb + 2,
                                              !.ServerGroup = built.masters[m]]]
               IN  IF fails
                   THEN built' = [built EXCEPT !.pc = "failed", !.err = ErrDomain]
                   ELSE built' = [built EXCEPT !.pc = "done",
                                               !.emitted = @ \o chain \o assoc]
    /\ UNCHANGED <<tasks, rendered, naming>>
    /\ UNCHANGED <<facadeVars, cloudVars, taskVars>>

BuildNext ==
    \/ BuildGroup
    \/ buildInstances
    \/ BuildLoadbalancer

SpecBuild == BuildInit /\ [][BuildNext]_vars

(***************************************************************************)
(* SpecCompute: the instance operations of the facade (network.go, second  *)
(* half) against a cloud of one server, its port and one flavor            *)
(***************************************************************************)
FlavorUniverse == {[ID |-> "fl1", Name |-> "small"]}

\* what server s1 may report as its addresses
AddressSets ==
    { {},
      {[Addr |-> "10.0.0.1", IPType |-> "fixed"]},
      {[Addr |-> "10.0.0.1", IPType |-> "fixed"],
       [Addr |-> "192.0.2.1", IPType |-> "floating"]} }

ComputeOps ==
    {"getFlavor", "getInstance", "deleteInstance", "DeleteInstanceWithID",
     "listServerFloatingIPs"}

\* a flavor name for getFlavor, a server id for the instance operations,
\* with floatingEnabled for listServerFloatingIPs
ComputeArgsOf(op) ==
    CASE op = "getFlavor" -> {"small", "huge"}
      [] op = "listServerFloatingIPs" ->
             [id : {"s1"}, floatingEnabled : BOOLEAN]
      [] OTHER -> {"s1", "s9"}

\* no Instance task is run
RunsIdle ==
    /\ e = <<>> /\ a = <<>> /\ changes = <<>> /\ should = <<>>
    /\ members = <<>> /\ calls = <<>> /\ ci = <<>> /\ pc = <<>>
    /\ GroupIdle
    /\ rerr = <<>> /\ faults = <<>> /\ prev = <<>> /\ cloud0 = <<>>

ComputeInit ==
    /\ fop = "none" /\ fpc = "idle" /\ i = 0 /\ NestIdle /\ net = Nil /\ outs = <<>>
    /\ ret = [val |-> Nil, err |-> Nil]
    /\ remote = <<>> /\ hist = <<>>
    /\ networkName = "ext" /\ networks = {}
    /\ backoff \in {[Steps |-> n] : n \in 1..MaxSteps}
    /\ down \in 0..MaxSteps
    /\ servers \in {{}} \cup {{[ID |-> "s1", Name |-> "a", Tags |-> Some({"t1"}),
                                Metadata |-> "m1", Addresses |-> ad]} :
                                    ad \in AddressSets}
    /\ ports \in {<<>>} \cup [{"p1", "p2"} -> {PortBinding(d) : d \in {"", "s1"}}]
    /\ fips = <<>>
    /\ RunsIdle /\ DepsIdle

\* a facade function of the instance operations is entered
ComputeCall ==
    /\ fpc = "idle" /\ Len(hist) < MaxCalls
    /\ fop' \in ComputeOps
    /\ networkName' \in ComputeArgsOf(fop')
    /\ fpc' = "retry"
    /\ UNCHANGED <<backoff, i, networks, net, outs, ret, remote, down, hist>>
    /\ UNCHANGED <<cloudVars, taskVars, depsVars, inner>>

\* a facade function that makes its remote call once, outside
\* RetryWithBackoff, and returns out
FacadeOnce(answer, out) ==
    /\ answer = "fail" => down > 0
    /\ down' = IF answer = "fail" THEN down - 1 ELSE down
    /\ remote' = Append(remote, answer)
    /\ ret' = out
    /\ fpc' = "returned"
    /\ UNCHANGED <<fop, backoff, i, networks, networkName, net, outs, hist>>
    /\ UNCHANGED <<taskVars, depsVars, inner>>

\* getFlavor: the flavors are listed and extracted once; a failure of
\* either, and a listing without the name, are returned as errors
getFlavorResult(flavors, name, listFails) ==
    IF listFails THEN [val |-> Nil, err |-> ErrDomain]
    ELSE IF \E f \in flavors : f.Name = name
    THEN [val |-> (CHOOSE f \in flavors : f.Name = name).ID, err |-> Nil]
    ELSE [val |-> Nil, err |-> ErrDomain]

getFlavor ==
    /\ fpc = "retry" /\ fop = "getFlavor"
    /\ \E listFails \in BOOLEAN :
          FacadeOnce(IF listFails THEN "fail" ELSE "ok",
                     getFlavorResult(FlavorUniverse, networkName, listFails))
    /\ UNCHANGED cloudVars

\* getInstance's closure: servers.Get(id) answers the server or an error
getInstanceClosure(answer, id) ==
    IF answer # "ok" THEN [net |-> Nil, done |-> FALSE, err |-> ErrDomain]
    ELSE [net |-> id, done |-> TRUE, err |-> Nil]

getInstance ==
    /\ fpc = "retry" /\ fop = "getInstance"
    /\ \E transportFails \in BOOLEAN :
          LET answer == Answer(servers, networkName, transportFails)
          IN  FacadeAttempt(getInstanceClosure(answer, networkName), answer)
    /\ networks' = networks

\* deleteInstanceWithID: return servers.Delete(client, id).ExtractErr()
deleteInstanceWithID(answer) ==
    IF answer # "ok" THEN ErrDomain ELSE Nil

\* deleteInstance(c, i) is deleteInstanceWithID(c, i.ID)
deleteInstance ==
    /\ fpc = "retry" /\ fop = "deleteInstance"
    /\ \E transportFails \in BOOLEAN :
          LET answer == Answer(servers, networkName, transportFails)
          IN  /\ FacadeOnce(answer, [val |-> Nil, err |-> deleteInstanceWithID(answer)])
              /\ servers' = IF answer = "ok"
                             THEN {sv \in servers : sv.ID # networkName}
                             ELSE servers
    /\ UNCHANGED <<ports, fips>>

\* the function domain d of f
Restrict(f, d) == [x \in d |-> f[x]]

\* DeleteInstanceWithID, its first call: c.ListPorts with the instance as
\* DeviceID.  Its error is returned; otherwise the loop over the ports
\* listed begins.  net keeps the ports listed and those the loop has left.
DeleteInstanceWithIDListPorts ==
    /\ fpc = "retry" /\ fop = "DeleteInstanceWithID"
    /\ \E listPortsFails \in BOOLEAN :
          LET mine == ListPorts(ports, networkName)
          IN  IF listPortsFails
              THEN /\ ret' = [val |-> Nil, err |-> ErrDomain]
                   /\ fpc' = "returned"
                   /\ net' = [listed |-> {}, left |-> {}, failed |-> TRUE]
              ELSE /\ ret' = ret
                   /\ fpc' = "ports"
                   /\ net' = [listed |-> mine, left |-> mine, failed |-> FALSE]
    /\ UNCHANGED <<fop, backoff, i, networks, networkName, outs, remote, down, hist>>
    /\ UNCHANGED <<cloudVars, taskVars, depsVars, inner>>

AfterDeletePortGoesOn(deletePortFails) == "ports"

\* err = c.DeletePort(port.ID); if err != nil {return ...}
AfterDeletePort(deletePortFails) ==
    IF deletePortFails THEN "returned" ELSE "ports"

\* one pass of the loop: c.DeletePort of the next port listed, which
\* deletes the port or ends in an error
DeleteInstanceWithIDDeletePort ==
    /\ fpc = "ports" /\ fop = "DeleteInstanceWithID" /\ net.left # {}
    /\ \E port \in net.left, deletePortFails \in BOOLEAN :
          /\ ports' = IF deletePortFails THEN ports
                      ELSE Restrict(ports, DOMAIN ports \ {port})
          /\ net' = [net EXCEPT !.left = @ \ {port},
                                !.failed = @ \/ deletePortFails]
          /\ fpc' = AfterDeletePort(deletePortFails)
          /\ ret' = IF fpc' = "returned"
                    THEN [val |-> Nil, err |-> ErrDomain] ELSE ret
    /\ UNCHANGED <<fop, backoff, i, networks, networkName, outs, remote, down, hist>>
    /\ UNCHANGED <<servers, fips, taskVars, depsVars, inner>>

\* after the loop: return deleteInstanceWithID(c, instanceID)
DeleteInstanceWithID ==
    /\ fpc = "ports" /\ fop = "DeleteInstanceWithID" /\ net.left = {}
    /\ \E transportFails \in BOOLEAN :
          LET answer == Answer(servers, networkName, transportFails)
          IN  /\ FacadeOnce(answer, [val |-> Nil, err |-> deleteInstanceWithID(answer)])
              /\ servers' = IF answer = "ok"
                             THEN {sv \in servers : sv.ID # networkName}
                             ELSE servers
    /\ UNCHANGED <<ports, fips>>

\* the addresses listServerFloatingIPs appends to result: the floating ones
\* when floatingEnabled, all of them otherwise
AddressesOf(server, floatingEnabled) ==
    {ad.Addr : ad \in {x \in server.Addresses :
                          ~floatingEnabled \/ x.IPType = "floating"}}

\* listServerFloatingIPs' closure: a failed lookup of the server ends the
\* loop with its error; addresses end it without; none yet asks for another
\* pass
listServerFloatingIPsClosure(answer, srv, arg) ==
    IF answer # "ok" THEN [net |-> {}, done |-> TRUE, err |-> ErrDomain]
    ELSE LET server == CHOOSE sv \in srv : sv.ID = arg.id
             result == AddressesOf(server, arg.floatingEnabled)
         IN  [net |-> result, done |-> result # {}, err |-> Nil]

\* if len(result) == 0 || err != nil {return result, fmt.Errorf(...)}
\* return result, nil
listServerFloatingIPsReturn(result, done, err) ==
    IF result = {} \/ err # Nil THEN [val |-> result, err |-> ErrDomain]
    ELSE [val |-> result, err |-> Nil]

\* one pass of RetryWithBackoff's loop under floatingBackoff; the lookup of
\* the server is c.GetInstance, answer its outcome
listServerFloatingIPs ==
    /\ fpc = "retry" /\ fop = "listServerFloatingIPs"
    /\ \E lookupFails \in BOOLEAN :
          LET answer == Answer(servers, networkName.id, lookupFails)
              r == listServerFloatingIPsClosure(answer, servers, networkName)
              n == i + 1
              w == RetryWithBackoff(backoff.Steps, n, r)
          IN  /\ answer = "fail" => down > 0
              /\ down' = IF answer = "fail" THEN down - 1 ELSE down
              /\ remote' = Append(remote, answer)
              /\ i' = n
              /\ net' = r.net
              /\ outs' = Append(outs, [done |-> r.done, err |-> r.err])
              /\ IF w.fin
                 THEN /\ fpc' = "returned"
                      /\ ret' = listServerFloatingIPsReturn(r.net, w.done, w.err)
                 ELSE /\ fpc' = "retry"
                      /\ ret' = ret
    /\ UNCHANGED <<fop, backoff, networks, networkName, hist>>
    /\ UNCHANGED <<cloudVars, taskVars, depsVars, inner>>

ComputeNext ==
    \/ ComputeCall
    \/ getFlavor
    \/ getInstance
    \/ deleteInstance
    \/ DeleteInstanceWithIDListPorts
    \/ DeleteInstanceWithIDDeletePort
    \/ DeleteInstanceWithID
    \/ listServerFloatingIPs

SpecCompute == ComputeInit /\ [][ComputeNext]_vars

(***************************************************************************)
(* SpecRender: RenderOpenstack called on drawn arguments (a, e, changes)   *)
(* against a drawn cloud                                                   *)
(***************************************************************************)
\* the desired Instance Render is given
RenderDesired ==
    [ID : {Nil}, Name : {"a"}, Tags : {<<"t1">>},
     Port : {None, Some([ID |-> Nil]), Some([ID |-> "p1"])},
     FloatingIP : {None, Some([ID |-> "f1"])}, Metadata : {"m1"} \cup BootMetadata,
     Flavor : {"small"}, Image : {"img1"}, Region : {"r1"}, SSHKey : {"k1"},
     ServerGroup : {Some([ID |-> "sg1"])}]

\* the actual Instance Render is given when the server exists
RenderActual ==
    [ID : {"s1"}, Name : {"a"}, Tags : {{"t1"}}, Metadata : {"m1"},
     Flavor : {"small"}, Image : {"img1"}, Region : {"r1"}, SSHKey : {"k1"},
     ServerGroup : {Some([ID |-> "sg1"])},
     Port : {None, Some([ID |-> "p1"])},
     FloatingIP : {None, Some([ID |-> "f1"])}]

RenderInit ==
    /\ fop = "none" /\ fpc = "idle" /\ i = 0 /\ NestIdle
    /\ networks = {} /\ networkName = "ext" /\ net = Nil /\ outs = <<>>
    /\ ret = [val |-> Nil, err |-> Nil]
    /\ remote = <<>> /\ down = 0 /\ hist = <<>>
    /\ backoff \in {[Steps |-> n] : n \in 1..MaxSteps}
    /\ DepsIdle
    /\ a \in [FindTasks -> {None} \cup {Some(x) : x \in RenderActual}]
    /\ \E d \in [FindTasks -> RenderDesired] :
          e = [t \in FindTasks |->
                 [d[t] EXCEPT !.ID = IF a[t] = None THEN Nil ELSE Val(a[t]).ID]]
    \* a field of changes is unset or the field of e
    /\ \E withPort, withFip \in [FindTasks -> BOOLEAN] :
          changes = [t \in FindTasks |->
                       IF a[t] = None
                       THEN BuildChanges(None, e[t])
                       ELSE [NoChanges EXCEPT
                               !.Port = IF withPort[t] THEN e[t].Port ELSE None,
                               !.FloatingIP = IF withFip[t] THEN e[t].FloatingIP
                                              ELSE None]]
    \* the cloud holds the server of a task that has an actual
    /\ servers = {[ID |-> Val(a[t]).ID, Name |-> "a", Tags |-> Some({"t1"}),
                   Metadata |-> "m1", Image |-> "img1", Flavor |-> "small",
                   KeyName |-> "k1"] : t \in {u \in FindTasks : a[u] # None}}
    /\ ports \in [{"p1"} -> {PortBinding(d) : d \in {"", "s1"}}
                             \cup {[DeviceID |-> "dead", DeviceOwner |-> ""]}]
    /\ fips \in [{"f1"} -> {"", "p1", "p2"}]
    /\ cloud0 = [servers |-> servers, ports |-> ports, fips |-> fips]
    /\ should = [t \in FindTasks |-> NoDecision]
    /\ members = <<>> /\ GroupIdle
    /\ calls = [t \in FindTasks |-> <<>>]
    /\ ci = [t \in FindTasks |-> NoCall]
    /\ pc = [t \in FindTasks |-> "render"]
    /\ rerr = [t \in FindTasks |-> Nil]
    /\ faults = [t \in FindTasks |-> NoFaults]
    /\ prev = [t \in FindTasks |-> NoPrev]

RenderNext ==
    \/ \E t \in FindTasks : RenderResolve(t)
    \/ \E t \in FindTasks : createInstance(t)
    \/ \E t \in FindTasks : RenderRegister(t)
    \/ \E t \in FindTasks : AddNewMemberAppend(t)
    \/ \E t \in FindTasks : associateFloatingIP(t)
    \/ \E t \in FindTasks : RenderUpdate(t)

SpecRender == RenderInit /\ [][RenderNext]_vars

(***************************************************************************)
(* SpecRun: one run (Find, the planning step, RenderOpenstack) of a task   *)
(* whose instance was created by an earlier run, or is yet to be created,  *)
(* the desired fields being drawn                                          *)
(***************************************************************************)
\* the server an earlier run created for the task
CreatedServer ==
    [ID |-> "s1", Name |-> "a", Tags |-> Some({"t1"}), Metadata |-> "m1",
     Image |-> "img1", Flavor |-> "small", KeyName |-> "k1"]

\* the desired Instance of the run
RunDesired ==
    [ID : {Nil}, Name : {"a", "b"}, Tags : {<<"t1">>},
     Port : {Some([ID |-> "p1"])},
     FloatingIP : {None, Some([ID |-> "f1"])}, Metadata : {"m1"},
     Flavor : {"small", "large"}, Image : {"img1", "img2"},
     Region : {"r1", "r2"}, SSHKey : {"k1", "k2"},
     ServerGroup : {Some([ID |-> "sg1"]), Some([ID |-> "sg2"])}]

RunInit ==
    /\ fop = "none" /\ fpc = "idle" /\ i = 0 /\ NestIdle
    /\ networks = {} /\ networkName = "ext" /\ net = Nil /\ outs = <<>>
    /\ ret = [val |-> Nil, err |-> Nil]
    /\ remote = <<>> /\ down = 0 /\ hist = <<>>
    /\ backoff \in {[Steps |-> n] : n \in 1..MaxSteps}
    /\ DepsIdle
    /\ \E exists \in BOOLEAN :
          /\ servers = IF exists THEN {CreatedServer} ELSE {}
          /\ ports \in [{"p1"} ->
                          IF exists THEN {PortBinding("s1"), PortBinding("")}
                          ELSE {PortBinding(""),
                                [DeviceID |-> "dead", DeviceOwner |-> ""]}]
          /\ fips \in [{"f1"} -> IF exists THEN {"", "p1"} ELSE {""}]
    /\ e \in [FindTasks -> RunDesired]
    /\ a = [t \in FindTasks |-> None]
    /\ changes = [t \in FindTasks |-> NoChanges]
    /\ should = [t \in FindTasks |-> NoDecision]
    /\ members = <<>> /\ GroupIdle
    /\ calls = [t \in FindTasks |-> <<>>]
    /\ ci = [t \in FindTasks |-> NoCall]
    /\ pc = [t \in FindTasks |-> "find"]
    /\ rerr = [t \in FindTasks |-> Nil]
    /\ faults = [t \in FindTasks |-> NoFaults]
    /\ prev = [t \in FindTasks |-> NoPrev]
    /\ cloud0 = <<>>

RunNext ==
    \/ \E t \in FindTasks : RunFind(t)
    \/ \E t \in FindTasks : Plan(t)
    \/ \E t \in FindTasks : RenderResolve(t)
    \/ \E t \in FindTasks : createInstance(t)
    \/ \E t \in FindTasks : RenderRegister(t)
    \/ \E t \in FindTasks : AddNewMemberAppend(t)
    \/ \E t \in FindTasks : associateFloatingIP(t)
    \/ \E t \in FindTasks : RenderUpdate(t)

SpecRun == RunInit /\ [][RunNext]_vars

(***************************************************************************)
(* SpecRetry: a task whose run ended with an error is run again from Find, *)
(* as often as it fails.  A remote call that is tried again and again is   *)
(* answered in the end (the failures are transient), and the engine does   *)
(* not stop while a step is left to take.                                  *)
(***************************************************************************)
RerunSkipsFind(t) ==
    /\ pc[t] = "failed"
    /\ pc' = [pc EXCEPT ![t] = "render"]
    /\ prev' = [prev EXCEPT ![t] =
                   <<[actual |-> a[t], err |-> rerr[t], faults |-> faults[t]]>>]
    /\ a' = a
    /\ changes' = changes
    /\ should' = [should EXCEPT ![t] = NoDecision]
    /\ calls' = [calls EXCEPT ![t] = <<>>]
    /\ ci' = [ci EXCEPT ![t] = NoCall]
    /\ rerr' = [rerr EXCEPT ![t] = Nil]
    /\ faults' = [faults EXCEPT ![t] = NoFaults]
    /\ UNCHANGED <<cloudVars, e, members, cloud0>>
    /\ UNCHANGED <<facadeVars, depsVars, groupVars>>

\* the task is run once more from the top: Find is called on the same task
\* value, whose ID an earlier Render may have set; what the failed run
\* found and returned is kept
Rerun(t) ==
    /\ pc[t] = "failed"
    /\ pc' = [pc EXCEPT ![t] = "find"]
    /\ prev' = [prev EXCEPT ![t] =
                   <<[actual |-> a[t], err |-> rerr[t], faults |-> faults[t]]>>]
    /\ a' = [a EXCEPT ![t] = None]
    /\ changes' = [changes EXCEPT ![t] = NoChanges]
    /\ should' = [should EXCEPT ![t] = NoDecision]
    /\ calls' = [calls EXCEPT ![t] = <<>>]
    /\ ci' = [ci EXCEPT ![t] = NoCall]
    /\ rerr' = [rerr EXCEPT ![t] = Nil]
    /\ faults' = [faults EXCEPT ![t] = NoFaults]
    /\ UNCHANGED <<cloudVars, e, members, cloud0>>
    /\ UNCHANGED <<facadeVars, depsVars, groupVars>>

\* the desired Instance that is retried: its Port was rendered before it
RetryDesired ==
    [ID : {Nil}, Name : {"a"}, Tags : {<<"t1">>},
     Port : {Some([ID |-> "p1"])},
     FloatingIP : {None, Some([ID |-> "f1"])}, Metadata : {"m1"},
     Flavor : {"small"}, Image : {"img1"}, Region : {"r1"}, SSHKey : {"k1"},
     ServerGroup : {Some([ID |-> "sg1"])}]

RetryInit ==
    /\ fop = "none" /\ fpc = "idle" /\ i = 0 /\ NestIdle
    /\ networks = {} /\ networkName = "ext" /\ net = Nil /\ outs = <<>>
    /\ ret = [val |-> Nil, err |-> Nil]
    /\ remote = <<>> /\ down = 0 /\ hist = <<>>
    /\ backoff \in {[Steps |-> n] : n \in 1..MaxSteps}
    /\ DepsIdle
    /\ servers = {}
    /\ ports \in [{"p1"} -> {PortBinding(""),
                              [DeviceID |-> "dead", DeviceOwner |-> ""]}]
    /\ fips \in [{"f1"} -> {"", "p2"}]
    /\ e \in [FindTasks -> RetryDesired]
    /\ a = [t \in FindTasks |-> None]
    /\ changes = [t \in FindTasks |-> NoChanges]
    /\ should = [t \in FindTasks |-> NoDecision]
    /\ members = <<>> /\ GroupIdle
    /\ calls = [t \in FindTasks |-> <<>>]
    /\ ci = [t \in FindTasks |-> NoCall]
    /\ pc = [t \in FindTasks |-> "find"]
    /\ rerr = [t \in FindTasks |-> Nil]
    /\ faults = [t \in FindTasks |-> NoFaults]
    /\ prev = [t \in FindTasks |-> NoPrev]
    /\ cloud0 = <<>>

RetryNext ==
    \/ \E t \in FindTasks : RunFind(t)
    \/ \E t \in FindTasks : Plan(t)
    \/ \E t \in FindTasks : RenderResolve(t)
    \/ \E t \in FindTasks : createInstance(t)
    \/ \E t \in FindTasks : RenderRegister(t)
    \/ \E t \in FindTasks : AddNewMemberAppend(t)
    \/ \E t \in FindTasks : associateFloatingIP(t)
    \/ \E t \in FindTasks : RenderUpdate(t)
    \/ \E t \in FindTasks : Rerun(t)

\* a step that can be taken is taken, and each remote call that is made
\* again and again succeeds once: the listing calls of Find, the lookups
\* before the create call, a call of createInstance's closure that changes
\* the cloud (the stale binding cleared, the server created), the
\* association of the floating IP
RetryFairness ==
    /\ WF_vars(RetryNext)
    /\ \A t \in FindTasks :
          /\ SF_vars(RunFind(t) /\ rerr'[t] = Nil)
          /\ SF_vars(RenderResolve(t) /\ pc'[t] = "create")
          /\ SF_vars(createInstance(t) /\ ports' # ports)
          /\ SF_vars(associateFloatingIP(t) /\ pc'[t] = "done")

SpecRetry == RetryInit /\ [][RetryNext]_vars /\ RetryFairness

(***************************************************************************)
(* Properties                                                              *)
(***************************************************************************)
FalseNil == [done |-> FALSE, err |-> Nil]
AlwaysFalseNil == \A k \in 1..Len(outs) : outs[k] = FalseNil

\* C1: a facade operation whose closure reports (false, nil) on every
\* attempt runs it exactly Steps times and then returns wait.ErrWaitTimeout,
\* never a domain error; before that it has run it fewer than Steps times.
C1_ExhaustedIsWaitTimeout ==
    AlwaysFalseNil =>
        /\ Len(outs) = i /\ i <= backoff.Steps
        /\ fpc = "retry" => i < backoff.Steps
        /\ fpc = "returned" => i = backoff.Steps /\ ret.err = ErrWaitTimeout

\* getExternalNetwork found no external network of the name in any of three
\* attempts
C1_Witness ==
    /\ fop = "getExternalNetwork" /\ fpc = "returned" /\ AlwaysFalseNil
    /\ backoff.Steps = 3 /\ i = 3 /\ ret = [val |-> Nil, err |-> ErrWaitTimeout]

\* C2 as stated: an invocation of createInstance that cleared a stale port
\* issues at most two create calls.
C2_AsStated ==
    \A t \in DOMAIN ci : ci[t].clearedAt > 0 => ci[t].i <= 2

\* C2 amended: after an attempt that met the conflict on a stale port the
\* port update has been issued (the device ID is cleared when it succeeds)
\* and createInstance does not return while the policy has steps left, so the
\* create is issued again; one invocation issues at most Steps create calls.
C2_StaleRetriedWithinSteps ==
    \A t \in DOMAIN ci :
        /\ ci[t].i <= backoff.Steps
        /\ ci[t].clearedAt <= ci[t].i
        /\ (ci[t].last.updatePort # "none" /\ ci[t].i < backoff.Steps)
              => pc[t] = "create"
        /\ ci[t].last.updatePort = "ok"
              => /\ ci[t].clearedAt = ci[t].i
                 /\ PortOf(ci[t].portID).DeviceID = ""
        /\ (/\ ci[t].last.create = "409" /\ ci[t].portID # ""
            /\ ci[t].last.getPort = "ok"
            /\ ci[t].last.DeviceID # "" /\ ci[t].last.DeviceOwner = "")
              => ci[t].last.updatePort # "none"

\* the first attempt cleared the stale port, the second create was issued
C2_Witness ==
    \E t \in DOMAIN ci :
        /\ ci[t].clearedAt = 1 /\ ci[t].i = 2
        /\ ci[t].last.create = "ok" /\ pc[t] = "register"

\* C3: an attempt of createInstance issues the port update only when the
\* create answered 409, a port ID was passed, and the port the cloud holds
\* has a device ID and no device owner; an attempt that issues no update and
\* creates no server leaves every port as it was.
C3_UpdateOnlyForStalePort ==
    [][\A t \in DOMAIN ci : ci'[t].i = ci[t].i + 1 =>
          LET att == ci'[t].last
              port == PortOf(ci[t].portID)
          IN  /\ att.updatePort # "none" =>
                    /\ IsPortInUse(att.create) /\ ci[t].portID # ""
                    /\ att.getPort = "ok"
                    /\ port.DeviceID # "" /\ port.DeviceOwner = ""
              /\ att.updatePort # "ok" /\ att.create # "ok" => ports' = ports
              /\ att.updatePort = "ok" =>
                    ports' = [ports EXCEPT ![ci[t].portID].DeviceID = ""]]_vars

\* a conflict on a stale port was answered by a successful update
C3_Witness ==
    \E t \in DOMAIN ci :
        /\ ci[t].last = [create |-> "409", getPort |-> "ok", DeviceID |-> "dead",
                         DeviceOwner |-> "", updatePort |-> "ok"]
        /\ ports[ci[t].portID] = [DeviceID |-> "", DeviceOwner |-> ""]

\* position of the first occurrence of c in the sequence s, 0 for none
First(s, c) ==
    IF \E k \in 1..Len(s) : s[k] = c
    THEN CHOOSE k \in 1..Len(s) : s[k] = c /\ \A j \in 1..(k - 1) : s[j] # c
    ELSE 0

Creating(t) == pc[t] # "find" /\ a[t] = None
CreateReturned(t) == Creating(t) /\ ci[t].i > 0 /\ pc[t] # "create"
CreateSucceeded(t) == CreateReturned(t) /\ ci[t].ret.err = Nil

\* C8: in a Render that creates, the port is resolved before the create
\* call is issued, and the floating IP association is issued only after the
\* create call has returned without error, and after it in the order of
\* calls; a failed create is followed by no association.
C8_PortCreateAssociateOrder ==
    \A t \in DOMAIN calls : Creating(t) =>
        /\ First(calls[t], "CreateInstance") # 0 =>
              /\ First(calls[t], "Port") # 0
              /\ First(calls[t], "Port") < First(calls[t], "CreateInstance")
        /\ ci[t].i > 0 => First(calls[t], "CreateInstance") # 0
        /\ First(calls[t], "AssociateFIP") # 0 =>
              /\ CreateSucceeded(t)
              /\ First(calls[t], "CreateInstance") # 0
              /\ First(calls[t], "CreateInstance") < First(calls[t], "AssociateFIP")
        /\ pc[t] = "fip" => CreateSucceeded(t)

\* a Render went through all three steps
C8_Witness ==
    \E t \in DOMAIN calls :
        /\ pc[t] = "done"
        /\ calls[t] = <<"GetImage", "GetFlavor", "Port", "CreateInstance", "AssociateFIP">>

\* C9: once Render is past a successful create, the task's ID is the ID of
\* the server the create returned, that server is in the cloud, and the ID
\* is among the members of the server group; so it is for every task.
C9_CreatedIsMember ==
    \A t \in DOMAIN ci : (CreateSucceeded(t) /\ pc[t] \notin {"register", "append"}) =>
        /\ e[t].ID = ci[t].ret.val /\ e[t].ID # Nil
        /\ \E s \in servers : s.ID = e[t].ID /\ s.Name = e[t].Name
        /\ \E k \in 1..Len(members) : members[k] = e[t].ID

\* both instances of the group were created
C9_Witness ==
    /\ \A t \in DOMAIN ci : CreateSucceeded(t) /\ pc[t] = "done"
    /\ Cardinality(DOMAIN ci) = 2 /\ Len(members) = 2

\* the call CheckChanges has been made on (a, e, changes) of task t
Checked(t) == pc[t] \in {"checked", "decided"}

\* C6: CheckChanges returns an error when actual is non-nil and the changes
\* have an ID or a Name, and when actual is nil and the desired Name is
\* unset; in every other case it returns no error.
C6_CheckChangesErrors ==
    \A t \in DOMAIN pc : Checked(t) =>
        (rerr[t] # Nil <=>
            \/ a[t] # None /\ (changes[t].ID # Nil \/ changes[t].Name # Nil)
            \/ a[t] = None /\ e[t].Name = Nil)

\* a change of Name alone on an existing instance was refused
C6_Witness ==
    \E t \in DOMAIN pc :
        /\ Checked(t) /\ a[t] # None
        /\ changes[t].Name = "b" /\ changes[t].ID = Nil
        /\ rerr[t] = "CannotChangeField"

\* C7: ShouldCreate answers true exactly when actual is nil or the changes
\* have a Port or a FloatingIP, and never returns an error.
C7_ShouldCreateExactly ==
    \A t \in DOMAIN pc : pc[t] = "decided" =>
        /\ should[t].err = Nil
        /\ should[t].create <=>
              (a[t] = None \/ changes[t].Port # None \/ changes[t].FloatingIP # None)

\* metadata alone changed on an existing instance: no create
C7_Witness ==
    \E t \in DOMAIN pc :
        /\ pc[t] = "decided" /\ a[t] # None
        /\ changes[t] = [NoChanges EXCEPT !.Metadata = "m2"]
        /\ should[t] = [create |-> FALSE, err |-> Nil]

InstancesOf(tm) == {n \in DOMAIN tm : tm[n].Kind = "Instance"}

\* the Port, ServerGroup and FloatingIP tasks instance n refers to
Producers(tm, n) ==
    {Val(tm[n].Port), Val(tm[n].ServerGroup)}
    \cup (IF tm[n].FloatingIP # None THEN {Val(tm[n].FloatingIP)} ELSE {})

\* C10: the dependency set of an Instance holds its own Port, its
\* ServerGroup and, when declared, its FloatingIP, and an Instance that has
\* been rendered has all of them rendered before it.
C10_ProducersBeforeInstance ==
    \A n \in InstancesOf(tasks) :
        /\ Producers(tasks, n) \subseteq DOMAIN tasks
        /\ Producers(tasks, n) \subseteq GetDependencies(tasks, tasks[n])
        /\ n \in rendered => Producers(tasks, n) \subseteq rendered

\* an instance with a floating IP has been rendered, an instance of the
\* other group has not
C10_Witness ==
    \E n, m \in InstancesOf(tasks) :
        /\ n \in rendered /\ tasks[n].FloatingIP # None
        /\ m \notin rendered /\ tasks[m].ServerGroup # tasks[n].ServerGroup

\* the servers the lookup of Find yields for task t
Listed(t) == ListServers(servers, FindOpts(e[t]))
Looked(t) == pc[t] # "find" /\ e[t].Name # Nil /\ ~faults[t].listFails
Returned(t) == pc[t] # "find"

\* the lookups Find makes after it has its one server all succeed
FollowUpsSucceed(t) ==
    LET server == CHOOSE s \in Listed(t) : TRUE
        found == ListPorts(ports, server.ID)
        wantFips == e[t].FloatingIP # None /\ e[t].Port # None
    IN  /\ server.Tags # None
        /\ ~faults[t].portsFail
        /\ Cardinality(found) <= 1
        /\ Cardinality(found) = 1 => ~faults[t].portTaskFails
        /\ wantFips =>
              /\ ~faults[t].fipsFail
              /\ Cardinality(ListL3FloatingIPs(fips, PortID(e[t]))) <= 1

C5_FoundByName ==
    \A t \in DOMAIN pc : (Returned(t) /\ a[t] # None) =>
        \E s \in servers : s.Name = e[t].Name /\ s.ID = Val(a[t]).ID

\* Render has returned to the engine
RenderReturned(t) == pc[t] \in {"done", "failed"} /\ calls[t] # <<>>

\* C11: a Render that updates an existing instance and whose port
\* device-rebinding call failed returns an error.
C11_PortUpdateErrorReturned ==
    \A t \in DOMAIN calls :
        (/\ RenderReturned(t) /\ a[t] # None
         /\ \E k \in 1..Len(calls[t]) : calls[t][k] = "PortUpdate:error")
            => rerr[t] # Nil

\* every remote call of the facade call met a transport or server failure
AlwaysFailed == remote # <<>> /\ \A k \in 1..Len(remote) : remote[k] = "fail"

\* C12: a facade operation whose remote call fails on every attempt returns,
\* after Steps attempts, a domain error: not wait.ErrWaitTimeout and not
\* success.
C12_FailureSurfaces ==
    (fpc = "returned" /\ AlwaysFailed) =>
        /\ i = backoff.Steps
        /\ ret.err = ErrDomain

\* the first remote call of the facade call met the one transport failure
\* the cloud had in store: a call made after it is not failed by transport
OnceTransient ==
    /\ remote # <<>> /\ remote[1] = "fail" /\ down = 0
    /\ \A k \in 2..Len(remote) : remote[k] # "fail"

\* the remote call, made again, succeeds: the cloud holds what is asked for
WouldSucceedNext ==
    CASE fop = "getFlavor" -> \E f \in FlavorUniverse : f.Name = networkName
      [] fop = "getInstance" -> \E sv \in servers : sv.ID = networkName
      [] fop \in {"deleteInstance", "DeleteInstanceWithID"} ->
             \/ \E sv \in servers : sv.ID = networkName
             \/ \E k \in 1..Len(remote) : remote[k] = "ok"
      [] OTHER -> FALSE

\* C13: a facade operation whose remote call fails once by transport and
\* would succeed when made again succeeds, the policy allowing a second
\* attempt; getFlavor and the instance deletion are among the operations.
C13_TransientFailureRetried ==
    (/\ fpc = "returned" /\ backoff.Steps >= 2
     /\ fop \in {"getFlavor", "getInstance", "deleteInstance", "DeleteInstanceWithID"}
     /\ OnceTransient /\ WouldSucceedNext)
        => ret.err = Nil

\* C14: listServerFloatingIPs, when every pass of its poll found the server
\* without an address, returns wait.ErrWaitTimeout after Steps passes.
C14_ExhaustedPollIsWaitTimeout ==
    (fop = "listServerFloatingIPs" /\ fpc = "returned" /\ AlwaysFalseNil)
        => i = backoff.Steps /\ ret.err = ErrWaitTimeout

\* C16: a delete of an instance the cloud does not hold, the server delete
\* call answering not-found, returns no error.
C16_AbsentInstanceDeleted ==
    (/\ fop \in {"deleteInstance", "DeleteInstanceWithID"} /\ fpc = "returned"
     /\ remote = <<"notfound">>)
        => ret.err = Nil

\* the cloud answered the last remote call of the facade call
Answered == remote # <<>> /\ remote[Len(remote)] # "fail"

\* the call before this one was a successful deleteNetwork of the same ID
DeletedBefore ==
    /\ hist # <<>>
    /\ hist[Len(hist)].op = "deleteNetwork"
    /\ hist[Len(hist)].arg = networkName
    /\ hist[Len(hist)].err = Nil

\* C15: deleteNetwork returns success as soon as the cloud answers the
\* delete, be it with success or not-found, and the network is then absent;
\* for a network already absent that is the first attempt, with no retry;
\* called again for the same ID after a success it returns success on its
\* first attempt and leaves the cloud as the first call left it.
C15_DeleteNetworkIdempotent ==
    fop = "deleteNetwork" =>
        /\ Answered =>
              /\ fpc = "returned" /\ ret.err = Nil
              /\ ~(\E n \in networks : n.ID = networkName)
        /\ (remote # <<>> /\ remote[1] = "notfound") =>
              /\ i = 1 /\ fpc = "returned" /\ ret.err = Nil
        /\ DeletedBefore =>
              /\ networks = hist[Len(hist)].networks
              /\ \A k \in 1..Len(remote) : remote[k] # "ok"
              /\ Answered => i = Len(remote) /\ remote[i] = "notfound"
              /\ (remote # <<>> /\ remote[1] # "fail") => i = 1

\* a first call for n1 has returned success, and a second call for n1 has
\* returned success on the not-found answer of its first attempt
C15_Witness ==
    /\ fop = "deleteNetwork" /\ fpc = "returned" /\ networkName = "n1"
    /\ DeletedBefore
    /\ remote = <<"notfound">> /\ i = 1 /\ ret.err = Nil

\* C17: a second Find on the task, the cloud unchanged and the remote calls
\* answering as they did for the first, returns what the first returned: an
\* equal actual, or none both times, and the same error; the ID the first
\* call wrote into the task makes no difference.
C17_FindIdempotent ==
    \A t \in DOMAIN prev :
        (prev[t] # NoPrev /\ faults[t] = Val(prev[t]).faults) =>
            /\ a[t] = Val(prev[t]).actual
            /\ rerr[t] = Val(prev[t]).err

\* the first Find found the server and wrote its ID into the task; the
\* second, with every remote call answered, returned the same actual
C17_Witness ==
    \E t \in DOMAIN prev :
        /\ prev[t] # NoPrev /\ faults[t] = NoFaults
        /\ Val(prev[t]).faults = NoFaults
        /\ Val(prev[t]).actual # None /\ a[t] = Val(prev[t]).actual
        /\ e[t].ID = Val(a[t]).ID /\ Val(a[t]).Port # None

\* c occurs in the log s
Has(s, c) == \E k \in 1..Len(s) : s[k] = c

\* C18: a call of associateFloatingIP for a floating IP that targets the
\* task's port already leaves the floating IPs, the ports and the servers
\* as they are, and returns without error when the cloud answers the call.
C18_ReassociateIsNoOp ==
    [][\A t \in DOMAIN pc :
          (/\ pc[t] = "fip" /\ pc'[t] # "fip" /\ e[t].Port # None
           /\ fips[Val(e[t].FloatingIP).ID] = PortID(e[t]))
              => /\ fips' = fips /\ ports' = ports /\ servers' = servers
                 /\ ~Has(calls'[t], "AssociateFIP:error")
                       => pc'[t] = "done" /\ rerr'[t] = Nil]_vars

\* floating IP f1 targeted port p1 when Render was called on an existing
\* instance with a FloatingIP change; the association was issued, succeeded
\* and f1 targets p1 as before
C18_Witness ==
    \E t \in DOMAIN pc :
        /\ pc[t] = "done" /\ a[t] # None /\ changes[t].Port = None
        /\ Has(calls[t], "AssociateFIP")
        /\ cloud0.fips["f1"] = "p1" /\ PortID(e[t]) = "p1"
        /\ fips = cloud0.fips /\ ports = cloud0.ports /\ servers = cloud0.servers

\* C19: a Render given a non-nil actual issues no create call (no image or
\* flavor lookup either) and adds no server-group member; it issues the port
\* update exactly when the changes have a Port and the association only when
\* they have a FloatingIP; what it does not update it leaves as it was, and
\* with neither change it makes no cloud call and returns no error.
C19_UpdateIsMinimal ==
    \A t \in DOMAIN pc : a[t] # None =>
        /\ ci[t] = NoCall /\ members = <<>> /\ servers = cloud0.servers
        /\ \A c \in {"GetImage", "GetFlavor", "Port", "CreateInstance"} :
              ~Has(calls[t], c)
        /\ Has(calls[t], "PortUpdate") => changes[t].Port # None
        /\ (pc[t] # "render" /\ changes[t].Port # None) => Has(calls[t], "PortUpdate")
        /\ Has(calls[t], "AssociateFIP") => changes[t].FloatingIP # None
        /\ pc[t] = "fip" => changes[t].FloatingIP # None
        /\ changes[t].Port = None => ports = cloud0.ports
        /\ changes[t].FloatingIP = None => fips = cloud0.fips
        /\ (changes[t].Port = None /\ changes[t].FloatingIP = None) =>
              /\ calls[t] = <<>> /\ rerr[t] = Nil
              /\ pc[t] \in {"render", "done"}

\* Render returned from an update with neither change, having made no call,
\* while the task declares a floating IP that is not associated
C19_Witness ==
    \E t \in DOMAIN pc :
        /\ a[t] # None /\ pc[t] = "done" /\ calls[t] = <<>>
        /\ changes[t].Port = None /\ changes[t].FloatingIP = None
        /\ e[t].FloatingIP # None /\ fips["f1"] = ""

\* the run of task t has ended without an error
RunAccepted(t) == pc[t] = "done" /\ rerr[t] = Nil

\* C20: a run on an instance created earlier that is not rejected has
\* desired values for name, image, flavor and ssh key that are those of the
\* created server, and the server keeps its ID and these values.
C20_ImmutableMismatchRejected ==
    \A t \in DOMAIN pc : (a[t] # None /\ RunAccepted(t)) =>
        /\ CreatedServer \in servers
        /\ e[t].ID = CreatedServer.ID
        /\ e[t].Name = CreatedServer.Name
        /\ e[t].Image = CreatedServer.Image
        /\ e[t].Flavor = CreatedServer.Flavor
        /\ e[t].SSHKey = CreatedServer.KeyName

\* the servers of the cloud that carry the tag the task is looked up by
ServersOf(t) ==
    {s \in servers : s.Tags # None /\ e[t].Tags[1] \in Val(s.Tags)}

\* the task has exactly one server, which is a member of the group and the
\* device of the task's port, and the declared floating IP is on that port
Converged(t) ==
    /\ Cardinality(ServersOf(t)) = 1
    /\ \A s \in ServersOf(t) :
          /\ Has(members, s.ID)
          /\ ports[PortID(e[t])].DeviceID = s.ID
    /\ e[t].FloatingIP # None => fips[Val(e[t].FloatingIP).ID] = PortID(e[t])

CreatedIDs == {ci[t].ret.val : t \in {u \in DOMAIN ci : CreateSucceeded(u)}}

\* the task has left AddNewMember
Appended(t) == CreateSucceeded(t) /\ pc[t] \notin {"register", "append"}

C23_AttemptsWithinSteps ==
    fop = "findNetworkBySubnetID" => Len(remote) <= backoff.Steps

\* C25: makeInstanceName called on two tuples of (index, group name, group
\* generation, cluster generation) gives equal names when the tuples are
\* equal and different names when the tuples differ in any of the four.
C25_NamesTellTuplesApart ==
    (naming # <<>> /\ Len(naming.out) = 2) =>
        (naming.out[1] = naming.out[2]) <=> (naming.in[1] = naming.in[2])

\* the places of the tasks of a kind that Build has made for group g
Emitted(kind, g) ==
    {n \in 1..Len(built.emitted) :
        built.emitted[n].Kind = kind /\ built.emitted[n].Group = g}

\* Build has returned without error
Built == built # <<>> /\ built.pc = "done"

\* group g has one ServerGroup task, as many Port tasks and Instance tasks
\* as its MinSize, and every Instance refers to a Port of its own and to
\* the ServerGroup of the group
GroupTasks(g) ==
    /\ Cardinality(Emitted("ServerGroup", g)) = 1
    /\ Cardinality(Emitted("Port", g)) = built.groups[g].MinSize
    /\ Cardinality(Emitted("Instance", g)) = built.groups[g].MinSize
    /\ \A n \in Emitted("Instance", g) :
          /\ built.emitted[n].Port \in Emitted("Port", g)
          /\ built.emitted[n].ServerGroup \in Emitted("ServerGroup", g)
    /\ \A n, m \in Emitted("Instance", g) :
          built.emitted[n].Port = built.emitted[m].Port => n = m

\* group g has as many FloatingIP tasks as its MinSize, every Instance
\* referring to one of its own
GroupFloatingIPs(g) ==
    /\ Cardinality(Emitted("FloatingIP", g)) = built.groups[g].MinSize
    /\ \A n \in Emitted("Instance", g) :
          built.emitted[n].FloatingIP \in Emitted("FloatingIP", g)
    /\ \A n, m \in Emitted("Instance", g) :
          built.emitted[n].FloatingIP = built.emitted[m].FloatingIP => n = m

\* the group is a node group and the topology of the nodes is public
PublicNodes(g) ==
    /\ built.groups[g].Role = "Node"
    /\ built.cluster.Topology = None \/ Val(built.cluster.Topology).Nodes = "public"

\* C24 as stated: every node group in a public topology has its n
\* FloatingIP tasks.
C24_AsStated ==
    Built => \A g \in 1..Len(built.groups) :
                /\ GroupTasks(g)
                /\ PublicNodes(g) => GroupFloatingIPs(g)

\* C24: when Build returns without error, a group with MinSize = n has one
\* ServerGroup task, n Port tasks and n Instance tasks, each Instance
\* referring to its own Port and to the group's ServerGroup; a node group in
\* a public topology has n FloatingIP tasks too, one for each Instance,
\* when the cluster has a router and the group's AssociatePublicIP is not
\* false.
C24_GroupTasks ==
    Built => \A g \in 1..Len(built.groups) :
                /\ GroupTasks(g)
                /\ ( /\ PublicNodes(g)
                     /\ Val(built.cluster.Openstack).Router
                     /\ built.groups[g].AssociatePublicIP # Some(FALSE) )
                   => GroupFloatingIPs(g)

\* a node group of the largest size was built with its floating IPs
C24_Witness ==
    /\ Built
    /\ built.groups[1].Role = "Node" /\ built.groups[1].MinSize = MaxInstances
    /\ PublicNodes(1)
    /\ Cardinality(Emitted("FloatingIP", 1)) = MaxInstances
    /\ Cardinality(Emitted("Instance", 1)) = MaxInstances

\* the FloatingIP tasks of the loop that an Instance refers to
Referred == {built.emitted[n].FloatingIP : n \in 1..Len(built.emitted)} \ {0}

\* C28: an Instance the builder has made has a FloatingIP task exactly when
\* the cluster has a router, AssociatePublicIP of the group is not false,
\* and the role is bastion, or master with masters not private, or another
\* with nodes not private; and the loop makes no FloatingIP task but those
\* the Instances refer to.
C28_FloatingIPExactlyWhen ==
    built # <<>> =>
        /\ \A n \in 1..Len(built.emitted) :
              built.emitted[n].Kind = "Instance" =>
                 LET ig == built.groups[built.emitted[n].Group]
                     cl == built.cluster
                 IN  /\ (built.emitted[n].FloatingIP # 0) <=>
                           /\ Val(cl.Openstack).Router
                           /\ ig.AssociatePublicIP # Some(FALSE)
                           /\ \/ ig.Role = "Bastion"
                              \/ /\ ig.Role = "Master"
                                 /\ cl.Topology # None => Val(cl.Topology).Masters # "private"
                              \/ /\ ig.Role \notin {"Bastion", "Master"}
                                 /\ cl.Topology # None => Val(cl.Topology).Nodes # "private"
                     /\ built.emitted[n].FloatingIP # 0 =>
                           /\ built.emitted[n].FloatingIP = n + 1
                           /\ built.emitted[n + 1].Kind = "FloatingIP"
        /\ \A n \in 1..Len(built.emitted) :
              (built.emitted[n].Kind = "FloatingIP" /\ built.emitted[n].LB = 0)
                 => n \in Referred

\* a group with floating IPs and a master group without were built
C28_Witness ==
    /\ Built /\ Len(built.groups) = 2
    /\ Emitted("Instance", 1) # {} /\ Emitted("Instance", 2) # {}
    /\ \A n \in Emitted("Instance", 1) : built.emitted[n].FloatingIP # 0
    /\ \A n \in Emitted("Instance", 2) : built.emitted[n].FloatingIP = 0

\* C26: every create call Render issues carries the ID of a port the cloud
\* holds, and a Render whose desired Instance has no Port, or a Port without
\* an ID, issues no create call and ends with an error.
C26_CreateCarriesPort ==
    \A t \in DOMAIN calls :
        /\ Has(calls[t], "CreateInstance") =>
              ci[t].portID # "" /\ ci[t].portID \in DOMAIN ports
        /\ (a[t] = None /\ (e[t].Port = None \/ Val(e[t].Port).ID = Nil)) =>
              /\ ~Has(calls[t], "CreateInstance")
              /\ pc[t] \in {"render", "failed"}

\* C27: in a call of DeleteInstanceWithID the server delete call is issued
\* only when none of the ports listed at the start exists any more, and a
\* call whose listing or whose deletion of a port failed returns an error
\* without the server delete call being issued.
C27_PortsBeforeServer ==
    (fop = "DeleteInstanceWithID" /\ fpc \in {"ports", "returned"}) =>
        /\ remote # <<>> =>
              /\ net.listed \cap DOMAIN ports = {}
              /\ ListPorts(ports, networkName) = {}
        /\ net.failed => (fpc = "returned" /\ ret.err # Nil /\ remote = <<>>)

\* the two ports of the instance were deleted and the server delete issued
C27_Witness ==
    /\ fop = "DeleteInstanceWithID" /\ fpc = "returned"
    /\ net.listed = {"p1", "p2"} /\ remote = <<"ok">> /\ ports = <<>>

\* the desired metadata of t sets the boot flag to "true" or "enabled"
FlagSet(t) ==
    LET m == MetadataOf(e[t].Metadata)
    IN  /\ BOOT_FROM_VOLUME \in DOMAIN m
        /\ m[BOOT_FROM_VOLUME] \in {<<"t", "r", "u", "e">>,
                                    <<"e", "n", "a", "b", "l", "e", "d">>}

SizeGiven(t) == BOOT_VOLUME_SIZE \in DOMAIN MetadataOf(e[t].Metadata)

\* the sizes the drawn metadata give as integers, and the drawn metadata
\* whose size is not an integer
ExplicitSize == ("enabled20" :> 20) @@ ("boot+07" :> 7) @@ ("boot-3" :> (0 - 3))
NotAnInteger == {"boot2x", "boot1.5", "bootEmpty", "bootSign"}

CreateIssued(t) == First(calls[t], "CreateInstance") # 0

\* C29: of a Render that creates, the create call carries boot-from-volume
\* parameters exactly when the metadata flag is "true" or "enabled"; their
\* volume size is the integer the size key gives when the key is present,
\* and the minimum disk of the image otherwise; and with the flag set and a
\* size that is not an integer, Render returns an error without having
\* issued a create call.
C29_BootVolume ==
    \A t \in DOMAIN pc :
        (a[t] = None /\ pc[t] # "render") =>
            /\ CreateIssued(t) =>
                  /\ ci[t].bootVolume = FlagSet(t)
                  /\ (FlagSet(t) /\ SizeGiven(t)) =>
                        /\ e[t].Metadata \in DOMAIN ExplicitSize
                        /\ ci[t].VolumeSize = ExplicitSize[e[t].Metadata]
                  /\ (FlagSet(t) /\ ~SizeGiven(t)) =>
                        ci[t].VolumeSize = GetImage(e[t].Image).MinDiskGigabytes
            /\ (FlagSet(t) /\ e[t].Metadata \in NotAnInteger) =>
                  /\ pc[t] = "failed" /\ rerr[t] # Nil
                  /\ ~CreateIssued(t) /\ servers = cloud0.servers

\* a server was created from a payload with a boot volume of the size the
\* metadata give
C29_Witness ==
    \E t \in DOMAIN pc :
        /\ e[t].Metadata = "boot+07" /\ CreateSucceeded(t)
        /\ ci[t].bootVolume /\ ci[t].VolumeSize = 7

\* the Port, ServerGroup and FloatingIP tasks of the whole map
AllProducers(tm) ==
    {m \in DOMAIN tm : tm[m].Kind = "Port" \/ tm[m].Kind = "ServerGroup"
                          \/ tm[m].Kind = "FloatingIP"}

\* C30: the dependency set of an Instance is every Port, ServerGroup and
\* FloatingIP task of the map, those of other instances and groups included,
\* together with the tasks its user data refers to; an Instance that has
\* been rendered has every such task of the map rendered before it; and no
\* Instance is in the dependency set of an Instance.
C30_DependsOnAllProducers ==
    \A n \in InstancesOf(tasks) :
        LET deps == GetDependencies(tasks, tasks[n])
            refs == IF tasks[n].UserData = None THEN {}
                    ELSE Val(tasks[n].UserData) \cap DOMAIN tasks
        IN  /\ AllProducers(tasks) \subseteq deps
            /\ refs \subseteq deps
            /\ deps \subseteq AllProducers(tasks) \cup refs
            /\ n \in rendered => AllProducers(tasks) \subseteq rendered
            /\ deps \cap InstancesOf(tasks) = {}

\* an instance has been rendered while an instance of the other group, which
\* has a floating IP, has not
C30_Witness ==
    \E n, m \in InstancesOf(tasks) :
        /\ n \in rendered /\ m \notin rendered
        /\ tasks[m].ServerGroup # tasks[n].ServerGroup
        /\ tasks[m].FloatingIP # None /\ tasks[n].FloatingIP = None
        /\ tasks[n].UserData # Some({})

\* the create call of task t has returned an error to Render
CreateFailed(t) == CreateReturned(t) /\ ci[t].ret.err # Nil

\* the IDs the create calls of the tasks other than t have returned
CreatedByOthers(t) ==
    {ci[u].ret.val : u \in {v \in DOMAIN ci \ {t} : CreateSucceeded(v)}}

\* C31: when the create call of a Render has returned an error, Render has
\* returned an error, the ID of the task is still unset, the task has added
\* no member to the server group (the members are those the other tasks'
\* creates gave, no more), and it has issued no floating IP association.
C31_FailedCreateLeavesTask ==
    \A t \in DOMAIN ci : CreateFailed(t) =>
        /\ pc[t] = "failed" /\ rerr[t] # Nil
        /\ e[t].ID = Nil
        /\ mutex # t /\ t \notin DOMAIN appending
        /\ \A k \in 1..Len(members) : members[k] \in CreatedByOthers(t)
        /\ Len(members) <= Cardinality(CreatedByOthers(t))
        /\ First(calls[t], "AssociateFIP") = 0
        /\ calls[t][Len(calls[t])] = "CreateInstance"

\* the create of a task that declares a floating IP has failed, while the
\* other task of the group was created and is the group's one member
C31_Witness ==
    \E t, u \in DOMAIN ci :
        /\ t # u /\ CreateFailed(t) /\ e[t].FloatingIP # None
        /\ CreateSucceeded(u) /\ pc[u] = "done"
        /\ members = <<e[u].ID>>

====
